---- MODULE Spec2Model ----
(***************************************************************************)
(* Model of the next-watch-recommender backend: the relational tables      *)
(* (user_profiles, media_items, user_interactions, recommendations) and    *)
(* the handlers createUserInteraction, generateRecommendations and         *)
(* getNextRecommendation that read and write them.                         *)
(*                                                                         *)
(* Fixed-point encodings of the numeric columns:                           *)
(*   vote_average  numeric(3,1)   tenths          (85 is 8.5)              *)
(*   popularity    numeric(10,3)  thousandths     (60000 is 60.000)        *)
(*   score         numeric(5,4)   ten-thousandths (8500 is 0.8500)         *)
(* The in-memory JavaScript score is kept in units of 10^-5 so that the    *)
(* sub-rounding deviation of IEEE-754 double addition can be carried as    *)
(* +1 / -1 and is removed by the rounding done when the row is stored.     *)
(***************************************************************************)
EXTENDS Integers, Sequences, FiniteSets, TLC

VARIABLES users, user_profiles_id_seq, media, interactions, recs, watchlist,
          watchlist_id_seq, now,
          calls, history

vars == <<users, user_profiles_id_seq, media, interactions, recs, watchlist,
          watchlist_id_seq, now,
          calls, history>>

(***************************************************************************)
(* Absent values.  Inputs are parsed by zod: an optional field that is not *)
(* supplied is undefined; a nullable column without a value is NULL.       *)
(***************************************************************************)
UndefinedId == 0 - 1
NullId == 0 - 2
UndefinedStr == "<undefined>"
NullStr == "<null>"

(* JavaScript truthiness of an optional number / string:  !x  is true for  *)
(* undefined, 0 and the empty string.                                      *)
TruthyId(x) == x # UndefinedId /\ x # 0

(* Variant: only the empty string is falsy.                                *)
NonEmptyStr(s) == s # ""

TruthyStr(s) == s # UndefinedStr /\ s # ""

(* `x || null`                                                             *)
IdOrNull(x) == IF TruthyId(x) THEN x ELSE NullId
StrOrNull(s) == IF TruthyStr(s) THEN s ELSE NullStr

InteractionTypes ==
    {"like", "dislike", "watched_liked", "watched_disliked",
     "add_to_watchlist", "remove_from_watchlist"}

MediaTypes == {"movie", "tv"}

(***************************************************************************)
(* Bounds of the model.                                                    *)
(***************************************************************************)
MaxCalls == 3
MaxDrainCalls == 4
MaxInteractionRows == 2
MaxInteractionCalls == 3
MaxConcurrentCalls == 3
MaxConcurrentInteractions == 2

Min(a, b) == IF a < b THEN a ELSE b
Max(a, b) == IF a > b THEN a ELSE b

Range(s) == {s[i] : i \in 1..Len(s)}

(***************************************************************************)
(* Catalog contents.  media_items rows are written by the ingestion path;  *)
(* the handlers modelled here only read them.  An item is                  *)
(* <<title, media_type, genres, vote_average, popularity>>.                *)
(***************************************************************************)
Item(title, type, genres, vote, pop) ==
    [title |-> title, media_type |-> type, genres |-> genres,
     vote_average |-> vote, popularity |-> pop]

ItemL == Item("Liked Movie", "movie", <<"Action", "Adventure">>, 90, 70000)
ItemA == Item("Item A", "movie", <<"Action">>, 85, 60000)
ItemATv == Item("Item A", "tv", <<"Action">>, 85, 60000)
ItemA2 == Item("Item A2", "movie", <<"Adventure", "Action">>, 85, 60000)
ItemB == Item("Item B", "movie", <<"Comedy">>, 60, 10000)
ItemBTv == Item("Item B", "tv", <<"Comedy">>, 60, 10000)
ItemT == Item("Show T", "tv", <<"Adventure", "Action">>, 75, 50001)
ItemU == Item("Show U", "tv", <<"Comedy">>, 80, 50000)
ItemV == Item("Movie V", "movie", <<"Action", "Adventure", "Comedy">>, 70, 5000)
ItemW == Item("Show W", "tv", <<>>, 69, 100000)
ItemR == Item("Movie R", "movie", <<"Action", "Adventure">>, 90, 40000)
ItemH == Item("Movie H", "movie", <<"Drama">>, 88, 30000)
ItemI == Item("Movie I", "movie", <<"Drama">>, 87, 30000)
ItemJ == Item("Movie J", "movie", <<"Drama">>, 87, 30000)

(* The media_items table holding the given items, ids from the serial      *)
(* column in insertion order.                                              *)
MediaTable(items) ==
    [i \in 1..Len(items) |->
        [id |-> i, tmdb_id |-> 100 + i, title |-> items[i].title,
         media_type |-> items[i].media_type, genres |-> items[i].genres,
         vote_average |-> items[i].vote_average,
         popularity |-> items[i].popularity,
         created_at |-> 0, updated_at |-> 0]]

CatalogScenario == MediaTable(<<ItemL, ItemA, ItemB>>)
CatalogScenarioTv == MediaTable(<<ItemL, ItemATv, ItemB>>)
CatalogScenarioBTv == MediaTable(<<ItemL, ItemA, ItemBTv>>)
CatalogTies == MediaTable(<<ItemA, ItemA2, ItemT, ItemW>>)
CatalogGraded == MediaTable(<<ItemB, ItemT, ItemU>>)
CatalogMixed == MediaTable(<<ItemL, ItemV, ItemT, ItemA>>)

(* A liked movie, three well-rated movies that share no genre with it and  *)
(* a lower-rated movie that shares two.                                    *)
CatalogWindow == MediaTable(<<ItemL, ItemH, ItemI, ItemJ, ItemV>>)
(* A liked movie and two movies that share its genres, one rated 9.0 of    *)
(* popularity 40, one rated 8.5 of popularity 60.                          *)
CatalogRounding == MediaTable(<<ItemL, ItemR, ItemA2>>)

Catalogs ==
    {CatalogScenario, CatalogScenarioTv, CatalogScenarioBTv, CatalogTies,
     CatalogGraded, CatalogMixed}

(***************************************************************************)
(* generateRecommendations: the interaction query.                         *)
(***************************************************************************)
(* Variant: the user_id wins, the session_id is used only without one.     *)
MatchesUserElseSession(row, user_id, session_id) ==
    IF TruthyId(user_id) THEN row.user_id = user_id
    ELSE row.session_id = session_id

MatchesActorForGenerate(row, user_id, session_id) ==
    IF TruthyId(user_id) /\ TruthyStr(session_id)
    THEN row.user_id = user_id \/ row.session_id = session_id
    ELSE IF TruthyId(user_id)
         THEN row.user_id = user_id
         ELSE row.session_id = session_id

(* user_interactions INNER JOIN media_items, filtered by the actor.  The   *)
(* order of the result is the table's; the handler only maps and filters   *)
(* it and draws from it at random.                                         *)
UserInteractionsQuery(inter, med, user_id, session_id) ==
    LET matching == SelectSeq(inter, LAMBDA r :
                        /\ r.media_item_id \in DOMAIN med
                        /\ MatchesActorForGenerate(r, user_id, session_id))
    IN [i \in 1..Len(matching) |->
           [media_item_id |-> matching[i].media_item_id,
            interaction_type |-> matching[i].interaction_type,
            title |-> med[matching[i].media_item_id].title,
            genres |-> med[matching[i].media_item_id].genres,
            media_type |-> med[matching[i].media_item_id].media_type,
            vote_average |-> med[matching[i].media_item_id].vote_average]]

(* Variant: only the items the actor liked are excluded.                   *)
InteractedMediaIdsLikedOnly(userInteractions) ==
    {userInteractions[i].media_item_id :
        i \in {k \in 1..Len(userInteractions) :
                  userInteractions[k].interaction_type \in {"like", "watched_liked"}}}

InteractedMediaIds(userInteractions) ==
    {userInteractions[i].media_item_id : i \in 1..Len(userInteractions)}

(* Variant: a watchlist addition counts as a like.                         *)
LikedTypesAndWatchlist == {"like", "watched_liked", "add_to_watchlist"}

LikedTypes == {"like", "watched_liked"}

LikedItems(userInteractions) ==
    SelectSeq(userInteractions, LAMBDA it : it.interaction_type \in LikedTypes)

LikedGenres(likedItems) ==
    UNION {Range(likedItems[i].genres) : i \in 1..Len(likedItems)}

LikedMediaTypes(likedItems) ==
    {likedItems[i].media_type : i \in 1..Len(likedItems)}

(***************************************************************************)
(* generateRecommendations: the candidate query.                           *)
(*   WHERE id NOT IN (interacted) [AND media_type = preferred]             *)
(*   ORDER BY vote_average DESC, popularity DESC  LIMIT limit * 3          *)
(* Rows equal in both sort keys come back in either order.                 *)
(***************************************************************************)
CandidateFactor == 3

(* Variant: no restriction to a media type.                                *)
IsCandidateOfAnyType(m, interactedMediaIds, likedMediaTypes) ==
    interactedMediaIds # {} => m.id \notin interactedMediaIds

IsCandidate(m, interactedMediaIds, likedMediaTypes) ==
    /\ (interactedMediaIds # {} => m.id \notin interactedMediaIds)
    /\ (Cardinality(likedMediaTypes) > 0 /\ Cardinality(likedMediaTypes) < 2
           => m.media_type \in likedMediaTypes)

RanksBefore(a, b) ==
    \/ a.vote_average > b.vote_average
    \/ a.vote_average = b.vote_average /\ a.popularity >= b.popularity

(* Every ordering of the rows in S that ORDER BY allows: a first row is   *)
(* any row that ranks before all others.                                   *)
RECURSIVE OrderedResults(_)
OrderedResults(S) ==
    IF S = {} THEN {<<>>}
    ELSE UNION {{<<m>> \o rest : rest \in OrderedResults(S \ {m})} :
                   m \in {m \in S : \A q \in S : RanksBefore(m, q)}}

CandidateQuery(med, interactedMediaIds, likedMediaTypes, limit) ==
    LET eligible == {m \in Range(med) :
                        IsCandidate(m, interactedMediaIds, likedMediaTypes)}
    IN {SubSeq(p, 1, Min(Len(p), limit * CandidateFactor)) :
           p \in OrderedResults(eligible)}

(***************************************************************************)
(* generateRecommendations: scoring of one candidate.  Scores in memory    *)
(* are in units of 10^-5.                                                  *)
(***************************************************************************)
BaseScore == 30000
GenreBonus == 20000
HighRating == 80
HighRatingBonus == 20000
GoodRating == 70
GoodRatingBonus == 10000
MediaTypeBonus == 10000
PopularityThreshold == 50000
PopularityBonus == 5000
MinScore == 0
MaxScore == 100000

(* candidate.genres.filter(genre => likedGenres.has(genre))                *)
MatchingGenres(candidate, likedGenres) ==
    SelectSeq(candidate.genres, LAMBDA g : g \in likedGenres)

(* Variant: a single rating tier, from 7.0.                                *)
RatingBonusOneTier(candidate) ==
    IF candidate.vote_average >= GoodRating THEN GoodRatingBonus ELSE 0

RatingBonus(candidate) ==
    IF candidate.vote_average >= HighRating THEN HighRatingBonus
    ELSE IF candidate.vote_average >= GoodRating THEN GoodRatingBonus
    ELSE 0

TypeBonus(candidate, likedMediaTypes) ==
    IF candidate.media_type \in likedMediaTypes THEN MediaTypeBonus ELSE 0

(* Variant: the popularity threshold itself earns the bonus.               *)
PopBonusInclusive(candidate) ==
    IF candidate.popularity >= PopularityThreshold THEN PopularityBonus ELSE 0

PopBonus(candidate) ==
    IF candidate.popularity > PopularityThreshold THEN PopularityBonus ELSE 0

(* The additions are IEEE-754 double additions of 0.3, n*0.2, 0.2, 0.1 and *)
(* 0.05, in that order.  Their result differs from the decimal sum by less *)
(* than 10^-15; this is the sign of that difference for the sums the       *)
(* handler can form with at most three matching genres (below the clamp):  *)
(*   0.3+0.2+0.2+0.1 = 0.3+0.4+0.1 = 0.7999999999999999                    *)
(*   0.3+0.4+0.1+0.1 = 0.3+0.4+0.2 = 0.8999999999999999                    *)
(*   0.3+0.4+0.2+0.1 = 0.9999999999999999                                  *)
(*   0.3+0.6000000000000001 = 0.9000000000000001 (+0.05 = 0.9500000000000002) *)
DoubleDeviation(overlap, ratingBonus, typeBonus, popBonus) ==
    IF overlap = 1 /\ ratingBonus = HighRatingBonus
          /\ typeBonus = MediaTypeBonus /\ popBonus = 0 THEN 0 - 1
    ELSE IF overlap = 2 /\ ratingBonus + typeBonus > 0 /\ popBonus = 0
         THEN 0 - 1
    ELSE IF overlap = 3 /\ ratingBonus + typeBonus = 0 THEN 1
    ELSE 0

(* Variant: no clamp.                                                      *)
ClampOff(score) == score

(* Math.min(Math.max(score, 0), 1)                                         *)
Clamp(score) == Min(Max(score, MinScore), MaxScore)

CandidateScore(candidate, likedGenres, likedMediaTypes) ==
    LET overlap == Len(MatchingGenres(candidate, likedGenres))
        sum == BaseScore + overlap * GenreBonus + RatingBonus(candidate)
                 + TypeBonus(candidate, likedMediaTypes) + PopBonus(candidate)
    IN Clamp(sum + DoubleDeviation(overlap, RatingBonus(candidate),
                     TypeBonus(candidate, likedMediaTypes), PopBonus(candidate)))

(* `${rating}/10` for rating = parseFloat(vote_average): 8.5 prints as     *)
(* "8.5", 8.0 as "8".                                                      *)
Digits == <<"0", "1", "2", "3", "4", "5", "6", "7", "8", "9", "10">>

RatingText(vote) ==
    LET whole == Digits[(vote \div 10) + 1]
        frac == vote % 10
    IN IF frac = 0 THEN <<whole, "/10">>
       ELSE <<whole, ".", Digits[frac + 1], "/10">>

(* Variant: the genre component lists all genres of the candidate.         *)
GenreReasonAllGenres(candidate, likedGenres) ==
    IF Len(MatchingGenres(candidate, likedGenres)) > 0
    THEN <<<<"genres you enjoy:">> \o candidate.genres>>
    ELSE <<>>

(* A reason is the sequence of the words of the stored text.               *)
GenreReason(candidate, likedGenres) ==
    IF Len(MatchingGenres(candidate, likedGenres)) > 0
    THEN <<<<"genres you enjoy:">> \o MatchingGenres(candidate, likedGenres)>>
    ELSE <<>>

RatingReason(candidate) ==
    IF candidate.vote_average >= HighRating
    THEN <<<<"highly rated">> \o RatingText(candidate.vote_average)>>
    ELSE IF candidate.vote_average >= GoodRating
         THEN <<<<"well-rated">> \o RatingText(candidate.vote_average)>>
         ELSE <<>>

TypeReason(candidate, likedMediaTypes) ==
    IF candidate.media_type \in likedMediaTypes
    THEN <<<<"you like", candidate.media_type, "s">>>>
    ELSE <<>>

(* reasons.join(' and ')                                                   *)
RECURSIVE JoinAnd(_)
JoinAnd(reasons) ==
    IF Len(reasons) = 0 THEN <<>>
    ELSE IF Len(reasons) = 1 THEN reasons[1]
    ELSE reasons[1] \o <<"and">> \o JoinAnd(Tail(reasons))

(* pick is the index Math.floor(Math.random() * likedItems.length) + 1.    *)
CandidateReason(candidate, likedGenres, likedMediaTypes, likedItems, pick) ==
    LET reasons == GenreReason(candidate, likedGenres)
                     \o RatingReason(candidate)
                     \o TypeReason(candidate, likedMediaTypes)
    IN IF Len(reasons) > 0 THEN <<"Because of">> \o JoinAnd(reasons)
       ELSE IF Len(likedItems) > 0
            THEN <<"Because you liked", likedItems[pick].title>>
            ELSE <<"Recommended for you">>

(* Whether the reason of a candidate is drawn at random.                   *)
NeedsPick(candidate, likedGenres, likedMediaTypes, likedItems) ==
    /\ Len(GenreReason(candidate, likedGenres)) = 0
    /\ Len(RatingReason(candidate)) = 0
    /\ Len(TypeReason(candidate, likedMediaTypes)) = 0
    /\ Len(likedItems) > 0

(* scoredCandidates.sort((a, b) => b.score - a.score): Array.prototype.sort *)
(* is stable, so equal scores keep the order of the candidate query.       *)
RECURSIVE InsertByScore(_, _)
InsertByScore(sorted, c) ==
    IF sorted = <<>> THEN <<c>>
    ELSE IF Head(sorted).score >= c.score
         THEN <<Head(sorted)>> \o InsertByScore(Tail(sorted), c)
         ELSE <<c>> \o sorted

RECURSIVE SortByScore(_)
SortByScore(scored) ==
    IF scored = <<>> THEN <<>>
    ELSE InsertByScore(SortByScore(SubSeq(scored, 1, Len(scored) - 1)),
                       scored[Len(scored)])

(* scoredCandidates.slice(0, limit)                                        *)
(* Variant: no slice, every scored candidate is kept.                      *)
AllCandidates(sorted, limit) == sorted

(* Variant: the best candidate fills every place of the batch.             *)
TopCandidatesRepeated(sorted, limit) ==
    [i \in 1..Min(Len(sorted), limit) |-> sorted[1]]

TopCandidates(sorted, limit) == SubSeq(sorted, 1, Min(Len(sorted), limit))

(* The numeric(5,4) column: the text of the double is rounded to four      *)
(* decimals when stored; parseFloat of the stored text is that value.      *)
ToNumeric54(score) == (score + 5) \div 10

(***************************************************************************)
(* The log of completed calls: what each returned (rows) or threw (error). *)
(* A handler that returns null returns no row.                             *)
(***************************************************************************)
NotApplicable == 0 - 3

Returned(op, input, rows) ==
    [op |-> op, input |-> input, ok |-> TRUE, error |-> "", rows |-> rows]

Threw(op, input, error) ==
    [op |-> op, input |-> input, ok |-> FALSE, error |-> error, rows |-> <<>>]

Input(u, s, limit, media_item_id, interaction_type) ==
    [user_id |-> u, session_id |-> s, limit |-> limit,
     media_item_id |-> media_item_id, interaction_type |-> interaction_type]

(* GetRecommendationsInput: user_id?, session_id?, limit.                  *)
RecommendationsInput(u, s, limit) == Input(u, s, limit, NotApplicable, "")

(* CreateUserInteractionInput: user_id?, session_id?, media_item_id,       *)
(* interaction_type.                                                       *)
InteractionInput(u, s, m, t) == Input(u, s, NotApplicable, m, t)

(***************************************************************************)
(* generateRecommendations                                                 *)
(***************************************************************************)
NoActorError == "Either user_id or session_id must be provided"

(* The scored candidates, sorted and cut to limit, for one result of the   *)
(* candidate query; picks[i] is the random draw made for candidate i.      *)
ScoredCandidates(candidates, likedGenres, likedMediaTypes, likedItems, picks) ==
    [i \in 1..Len(candidates) |->
        [id |-> candidates[i].id,
         score |-> CandidateScore(candidates[i], likedGenres, likedMediaTypes),
         reason |-> CandidateReason(candidates[i], likedGenres,
                        likedMediaTypes, likedItems, picks[i])]]

(* The possible random draws: one per candidate whose reason needs one.    *)
PickChoices(candidates, likedGenres, likedMediaTypes, likedItems) ==
    LET needy == {i \in 1..Len(candidates) :
                     NeedsPick(candidates[i], likedGenres, likedMediaTypes, likedItems)}
    IN {[i \in 1..Len(candidates) |-> IF i \in needy THEN draw[i] ELSE 1] :
           draw \in [needy -> 1..Len(likedItems)]}

(* The row one INSERT ... RETURNING creates.                               *)
RecommendationRow(id, user_id, session_id, candidate, created_at) ==
    [id |-> id,
     user_id |-> IdOrNull(user_id),
     session_id |-> StrOrNull(session_id),
     media_item_id |-> candidate.id,
     reason |-> candidate.reason,
     score |-> ToNumeric54(candidate.score),
     shown |-> FALSE,
     created_at |-> created_at]

(* The permutations of 1..n: the orders in which the n concurrent inserts  *)
(* of Promise.all reach the table.                                         *)
InsertOrders(n) ==
    {p \in [1..n -> 1..n] : \A i, j \in 1..n : i # j => p[i] # p[j]}

(* The rows created for the top candidates when the insert of candidate i  *)
(* is the order[i]-th to reach the table.                                  *)
InsertedRows(table, clock, user_id, session_id, top, order) ==
    [i \in 1..Len(top) |->
        RecommendationRow(Len(table) + order[i], user_id, session_id, top[i],
                          clock + order[i])]

(* Variant: an older row for an item of the new batch is marked shown.     *)
TableSuperseding(table, rows) ==
    [k \in 1..(Len(table) + Len(rows)) |->
        IF k <= Len(table)
        THEN IF \E i \in 1..Len(rows) :
                    rows[i].media_item_id = table[k].media_item_id
             THEN [table[k] EXCEPT !.shown = TRUE]
             ELSE table[k]
        ELSE LET i == CHOOSE i \in 1..Len(rows) : rows[i].id = k IN rows[i]]

(* The table after these rows were inserted, in the order of their ids.    *)
TableWith(table, rows) ==
    [k \in 1..(Len(table) + Len(rows)) |->
        IF k <= Len(table) THEN table[k]
        ELSE LET i == CHOOSE i \in 1..Len(rows) : rows[i].id = k IN rows[i]]

GenerateRejects(input) ==
    /\ ~TruthyId(input.user_id) /\ ~TruthyStr(input.session_id)
    /\ history' = Append(history, Threw("generateRecommendations", input, NoActorError))
    /\ UNCHANGED <<watchlist, watchlist_id_seq, users, user_profiles_id_seq, media, interactions, recs, now, calls>>

(* Every batch of rows one call can create: the candidate query's order   *)
(* among ties, the random draws and the order of the inserts are free.     *)
GeneratedRows(inter, med, table, clock, input) ==
    LET userInteractions == UserInteractionsQuery(inter, med,
                                   input.user_id, input.session_id)
        likedItems == LikedItems(userInteractions)
        likedGenres == LikedGenres(likedItems)
        likedMediaTypes == LikedMediaTypes(likedItems)
        Top(candidates, picks) ==
            TopCandidates(SortByScore(ScoredCandidates(candidates,
                likedGenres, likedMediaTypes, likedItems, picks)), input.limit)
    IN UNION {UNION {{InsertedRows(table, clock, input.user_id, input.session_id,
                          Top(candidates, picks), order) :
                        order \in InsertOrders(Len(Top(candidates, picks)))} :
                    picks \in PickChoices(candidates, likedGenres,
                                  likedMediaTypes, likedItems)} :
              candidates \in CandidateQuery(med,
                  InteractedMediaIds(userInteractions), likedMediaTypes, input.limit)}

(* Variant: the call runs whatever identifiers it carries.                 *)
GenerateInsertsUnchecked(input) ==
    /\ \E rows \in GeneratedRows(interactions, media, recs, now, input) :
          /\ recs' = TableWith(recs, rows)
          /\ now' = now + Len(rows)
          /\ history' = Append(history,
                 Returned("generateRecommendations", input, rows))
    /\ UNCHANGED <<watchlist, watchlist_id_seq, users, user_profiles_id_seq, media, interactions, calls>>

GenerateInserts(input) ==
    /\ ~(~TruthyId(input.user_id) /\ ~TruthyStr(input.session_id))
    /\ \E rows \in GeneratedRows(interactions, media, recs, now, input) :
          /\ recs' = TableWith(recs, rows)
          /\ now' = now + Len(rows)
          /\ history' = Append(history,
                 Returned("generateRecommendations", input, rows))
    /\ UNCHANGED <<watchlist, watchlist_id_seq, users, user_profiles_id_seq, media, interactions, calls>>

GenerateRecommendations(input) ==
    GenerateRejects(input) \/ GenerateInserts(input)

(***************************************************************************)
(* getNextRecommendation                                                   *)
(***************************************************************************)
(* Variant: without identifiers no actor condition is added.               *)
MatchesActorIfAny(row, user_id, session_id) ==
    IF user_id # UndefinedId THEN row.user_id = user_id
    ELSE IF session_id # UndefinedStr THEN row.session_id = session_id
    ELSE TRUE

MatchesActorForNext(row, user_id, session_id) ==
    IF user_id # UndefinedId THEN row.user_id = user_id
    ELSE IF session_id # UndefinedStr THEN row.session_id = session_id
    ELSE row.user_id = NullId /\ row.session_id = NullStr

(* Variant: no shown = false condition.                                    *)
NextShownOrNot(table, med, user_id, session_id) ==
    LET matching == {r \in Range(table) :
                        /\ (IF user_id # UndefinedId THEN r.user_id = user_id
                            ELSE IF session_id # UndefinedStr
                                 THEN r.session_id = session_id
                                 ELSE r.user_id = NullId /\ r.session_id = NullStr)
                        /\ r.media_item_id \in DOMAIN med}
    IN {r \in matching : \A q \in matching : q.score <= r.score}

(* Variant: no ORDER BY, any unshown row of the actor is returned.         *)
NextUnshownUnordered(table, med, user_id, session_id) ==
    {r \in Range(table) :
        /\ r.shown = FALSE
        /\ (IF user_id # UndefinedId THEN r.user_id = user_id
            ELSE IF session_id # UndefinedStr THEN r.session_id = session_id
            ELSE r.user_id = NullId /\ r.session_id = NullStr)
        /\ r.media_item_id \in DOMAIN med}

(* Variant: rows for items the actor has an interaction row for are left   *)
(* out.                                                                    *)
NextUnshownNotInteracted(table, med, user_id, session_id) ==
    LET matching == {r \in Range(table) :
                        /\ r.shown = FALSE
                        /\ (IF user_id # UndefinedId THEN r.user_id = user_id
                            ELSE IF session_id # UndefinedStr
                                 THEN r.session_id = session_id
                                 ELSE r.user_id = NullId /\ r.session_id = NullStr)
                        /\ r.media_item_id \in DOMAIN med
                        /\ ~\E i \in DOMAIN interactions :
                              /\ interactions[i].media_item_id = r.media_item_id
                              /\ IF user_id # UndefinedId
                                 THEN interactions[i].user_id = user_id
                                 ELSE interactions[i].session_id = session_id}
    IN {r \in matching : \A q \in matching : q.score <= r.score}

(* The rows the SELECT may return: WHERE shown = false AND <actor>,        *)
(* INNER JOIN media_items, ORDER BY score DESC LIMIT 1.  Among rows of     *)
(* equal score the database returns any one.                               *)
NextUnshown(table, med, user_id, session_id) ==
    LET matching == {r \in Range(table) :
                        /\ r.shown = FALSE
                        /\ MatchesActorForNext(r, user_id, session_id)
                        /\ r.media_item_id \in DOMAIN med}
    IN {r \in matching : \A q \in matching : q.score <= r.score}

(* Variant: the row becomes the only one marked shown.                     *)
MarkOnlyShown(table, id) ==
    [k \in 1..Len(table) |-> [table[k] EXCEPT !.shown = (table[k].id = id)]]

(* UPDATE recommendations SET shown = true WHERE id = <id>                 *)
MarkShown(table, id) ==
    [k \in 1..Len(table) |->
        IF table[k].id = id THEN [table[k] EXCEPT !.shown = TRUE] ELSE table[k]]

GetNextReturnsNull(input) ==
    /\ NextUnshown(recs, media, input.user_id, input.session_id) = {}
    /\ history' = Append(history, Returned("getNextRecommendation", input, <<>>))
    /\ UNCHANGED <<watchlist, watchlist_id_seq, users, user_profiles_id_seq, media, interactions, recs, now, calls>>

GetNextReturnsRow(input) ==
    /\ \E row \in NextUnshown(recs, media, input.user_id, input.session_id) :
          /\ recs' = MarkShown(recs, row.id)
          /\ history' = Append(history,
                 Returned("getNextRecommendation", input, <<row>>))
    /\ UNCHANGED <<watchlist, watchlist_id_seq, users, user_profiles_id_seq, media, interactions, now, calls>>

GetNextRecommendation(input) ==
    GetNextReturnsNull(input) \/ GetNextReturnsRow(input)

(***************************************************************************)
(* createUserInteraction                                                   *)
(***************************************************************************)
UserExists(profiles, user_id) ==
    \E i \in 1..Len(profiles) : profiles[i].id = user_id

MediaExists(med, media_item_id) ==
    \E i \in 1..Len(med) : med[i].id = media_item_id

UserMissingError == "User with id ${input.user_id} does not exist"
MediaMissingError == "Media item with id ${input.media_item_id} does not exist"

(* The error the validation steps end in, "" when they pass.               *)
InteractionError(profiles, med, input) ==
    IF ~TruthyId(input.user_id) /\ ~TruthyStr(input.session_id)
    THEN NoActorError
    ELSE IF TruthyId(input.user_id) /\ ~UserExists(profiles, input.user_id)
    THEN UserMissingError
    ELSE IF ~MediaExists(med, input.media_item_id)
    THEN MediaMissingError
    ELSE ""

(* WHERE media_item_id = <m> AND (user_id = <u> | session_id = <s>)        *)
MatchesInteraction(row, input) ==
    /\ row.media_item_id = input.media_item_id
    /\ IF TruthyId(input.user_id) THEN row.user_id = input.user_id
       ELSE IF TruthyStr(input.session_id)
            THEN row.session_id = input.session_id
            ELSE TRUE

(* The rows SELECT ... LIMIT 1 may return.                                 *)
ExistingInteraction(table, input) ==
    {r \in Range(table) : MatchesInteraction(r, input)}

(* Variant: the update only touches updated_at.                            *)
TouchInteraction(table, id, interaction_type, clock) ==
    [k \in 1..Len(table) |->
        IF table[k].id = id THEN [table[k] EXCEPT !.updated_at = clock]
        ELSE table[k]]

(* Variant: the update is keyed on the media item instead of the row id.   *)
UpdateInteractionsOfItem(table, id, interaction_type, clock) ==
    [k \in 1..Len(table) |->
        IF table[k].media_item_id = table[id].media_item_id
        THEN [table[k] EXCEPT !.interaction_type = interaction_type,
                              !.updated_at = clock]
        ELSE table[k]]

(* UPDATE user_interactions SET interaction_type, updated_at WHERE id      *)
UpdateInteraction(table, id, interaction_type, clock) ==
    [k \in 1..Len(table) |->
        IF table[k].id = id
        THEN [table[k] EXCEPT !.interaction_type = interaction_type,
                              !.updated_at = clock]
        ELSE table[k]]

(* The row INSERT INTO user_interactions ... RETURNING creates.            *)
InteractionRow(id, input, clock) ==
    [id |-> id,
     user_id |-> IdOrNull(input.user_id),
     session_id |-> StrOrNull(input.session_id),
     media_item_id |-> input.media_item_id,
     interaction_type |-> input.interaction_type,
     created_at |-> clock,
     updated_at |-> clock]

InteractionRejects(input) ==
    /\ InteractionError(users, media, input) # ""
    /\ history' = Append(history, Threw("createUserInteraction", input,
                             InteractionError(users, media, input)))
    /\ UNCHANGED <<watchlist, watchlist_id_seq, users, user_profiles_id_seq, media, interactions, recs, now, calls>>

InteractionUpdates(input) ==
    /\ InteractionError(users, media, input) = ""
    /\ \E existing \in ExistingInteraction(interactions, input) :
          LET table == UpdateInteraction(interactions, existing.id,
                           input.interaction_type, now + 1)
          IN /\ interactions' = table
             /\ history' = Append(history, Returned("createUserInteraction",
                               input, <<table[existing.id]>>))
    /\ now' = now + 1
    /\ UNCHANGED <<watchlist, watchlist_id_seq, users, user_profiles_id_seq, media, recs, calls>>

InteractionInserts(input) ==
    /\ InteractionError(users, media, input) = ""
    /\ ExistingInteraction(interactions, input) = {}
    /\ LET row == InteractionRow(Len(interactions) + 1, input, now + 1)
       IN /\ interactions' = Append(interactions, row)
          /\ history' = Append(history,
                 Returned("createUserInteraction", input, <<row>>))
    /\ now' = now + 1
    /\ UNCHANGED <<watchlist, watchlist_id_seq, users, user_profiles_id_seq, media, recs, calls>>

CreateUserInteraction(input) ==
    \/ InteractionRejects(input)
    \/ InteractionUpdates(input)
    \/ InteractionInserts(input)

(***************************************************************************)
(* Initial states and inputs.                                              *)
(***************************************************************************)
DefaultLimit == 10

Profiles == <<[id |-> 1, username |-> "alice", email |-> "alice@example.com"]>>

TypeOK ==
    /\ \A i \in 1..Len(interactions) :
          /\ interactions[i].id = i
          /\ interactions[i].interaction_type \in InteractionTypes
    /\ \A i \in 1..Len(recs) : recs[i].id = i /\ recs[i].shown \in BOOLEAN
    /\ \A i \in 1..Len(watchlist) : watchlist[i].id \in 1..watchlist_id_seq
    /\ watchlist_id_seq \in Nat
    /\ now \in Nat

U == UndefinedId
V == UndefinedStr

(* -- Spec: every handler, one call after another ------------------------ *)
GenerateInputs ==
    {RecommendationsInput(a[1], a[2], l) :
        a \in {<<1, V>>, <<U, "s1">>, <<1, "s1">>, <<U, V>>}, l \in {1, 2}}

GetNextInputs ==
    {RecommendationsInput(a[1], a[2], DefaultLimit) :
        a \in {<<1, V>>, <<U, "s1">>, <<1, "s1">>, <<0, "s1">>, <<U, V>>}}

InteractionInputs ==
    {InteractionInput(a[1], a[2], m, t) :
        a \in {<<1, V>>, <<U, "s1">>}, m \in {1, 2}, t \in {"like", "dislike"}}
      \cup {InteractionInput(U, V, 1, "like"),
            InteractionInput(U, "s1", 3, "dislike")}

Init ==
    /\ users = Profiles
    /\ user_profiles_id_seq = Len(Profiles)
    /\ media = CatalogGraded
    /\ interactions = <<>>
    /\ recs = <<>>
    /\ now = 0
    /\ watchlist = <<>>
    /\ watchlist_id_seq = 0
    /\ calls = <<>>
    /\ history = <<>>

Next ==
    \/ \E input \in InteractionInputs :
          Len(history) < MaxCalls /\ CreateUserInteraction(input)
    \/ \E input \in GenerateInputs :
          Len(history) < MaxCalls /\ GenerateRecommendations(input)
    \/ \E input \in GetNextInputs :
          Len(history) < MaxCalls /\ GetNextRecommendation(input)

Spec == Init /\ [][Next]_vars

(* -- SpecDrain: generateRecommendations and getNextRecommendation calls,  *)
(*    one after another, for every kind of actor input ------------------- *)
DrainActors == {<<1, V>>, <<U, "s1">>, <<1, "s1">>, <<0, "s1">>, <<U, V>>}

DrainGenerateInputs ==
    {RecommendationsInput(a[1], a[2], 2) : a \in DrainActors}

DrainGetNextInputs ==
    {RecommendationsInput(a[1], a[2], DefaultLimit) : a \in DrainActors}

NextDrain ==
    \/ \E input \in DrainGenerateInputs :
          Len(history) < MaxDrainCalls /\ GenerateRecommendations(input)
    \/ \E input \in DrainGetNextInputs :
          Len(history) < MaxDrainCalls /\ GetNextRecommendation(input)

SpecDrain == Init /\ [][NextDrain]_vars

(* -- SpecGen: one generateRecommendations call on a catalog and an        *)
(*    interaction log that createUserInteraction calls have built -------- *)
LogActors == <<[user_id |-> 1, session_id |-> NullStr],
               [user_id |-> NullId, session_id |-> "s1"]>>

(* (actor, media item) pairs, numbered in the order their rows were made.  *)
LogPairs(med) == {<<m, a>> : m \in DOMAIN med, a \in DOMAIN LogActors}

PairRank(pair) == pair[1] * (Len(LogActors) + 1) + pair[2]

RECURSIVE PairsInOrder(_)
PairsInOrder(pairs) ==
    IF pairs = {} THEN <<>>
    ELSE LET first == CHOOSE p \in pairs :
                          \A q \in pairs : PairRank(p) <= PairRank(q)
         IN <<first>> \o PairsInOrder(pairs \ {first})

(* The user_interactions table after one createUserInteraction call per    *)
(* pair: one row per pair, of the type given.                              *)
InteractionLog(types) ==
    LET order == PairsInOrder(DOMAIN types)
    IN [i \in 1..Len(order) |->
           [id |-> i,
            user_id |-> LogActors[order[i][2]].user_id,
            session_id |-> LogActors[order[i][2]].session_id,
            media_item_id |-> order[i][1],
            interaction_type |-> types[order[i]],
            created_at |-> i,
            updated_at |-> i]]

InteractionLogs(med) ==
    {InteractionLog(types) :
        types \in UNION {[pairs -> InteractionTypes] :
                            pairs \in {ps \in SUBSET LogPairs(med) :
                                          Cardinality(ps) <= MaxInteractionRows}}}

GenInputs ==
    {RecommendationsInput(a[1], a[2], l) :
        a \in {<<1, V>>, <<U, "s1">>, <<1, "s1">>, <<0, "s1">>, <<1, "">>, <<U, V>>},
        l \in {1, 2}}

InitGen ==
    /\ users = Profiles
    /\ user_profiles_id_seq = Len(Profiles)
    /\ media \in Catalogs
    /\ interactions \in InteractionLogs(media)
    /\ recs = <<>>
    /\ now = Len(interactions)
    /\ watchlist = <<>>
    /\ watchlist_id_seq = 0
    /\ calls = <<>>
    /\ history = <<>>

NextGen ==
    \E input \in GenInputs :
        history = <<>> /\ GenerateRecommendations(input)

SpecGen == InitGen /\ [][NextGen]_vars

(* -- SpecInteract: createUserInteraction calls, one after another, each   *)
(*    with a single actor identifier ------------------------------------- *)
SingleActorInputs ==
    {InteractionInput(a[1], a[2], m, t) :
        a \in {<<1, V>>, <<U, "s1">>, <<0, V>>, <<U, "">>, <<2, V>>},
        m \in {1, 2, 4}, t \in {"like", "dislike"}}

NextInteract ==
    \E input \in SingleActorInputs :
        Len(history) < MaxInteractionCalls /\ CreateUserInteraction(input)

SpecInteract == Init /\ [][NextInteract]_vars

(***************************************************************************)
(* Concurrent requests.  A handler runs up to its next await; the          *)
(* statements of different requests reach the database in any order.       *)
(* calls holds the requests in flight: the handler, its input, the         *)
(* statement it will issue next (pc) and the rows its last SELECT found.   *)
(***************************************************************************)
Call(op, input, pc, found) ==
    [op |-> op, input |-> input, pc |-> pc, found |-> found]

Without(seq, i) == SubSeq(seq, 1, i - 1) \o SubSeq(seq, i + 1, Len(seq))

Replaced(seq, i, x) == [seq EXCEPT ![i] = x]

(* -- getNextRecommendation, statement by statement ---------------------- *)
GetNextBegins(input) ==
    /\ calls' = Append(calls, Call("getNextRecommendation", input, "select", <<>>))
    /\ UNCHANGED <<watchlist, watchlist_id_seq, users, user_profiles_id_seq, media, interactions, recs, now, history>>

GetNextSelectsNone(i) ==
    /\ calls[i].op = "getNextRecommendation" /\ calls[i].pc = "select"
    /\ NextUnshown(recs, media, calls[i].input.user_id, calls[i].input.session_id) = {}
    /\ calls' = Without(calls, i)
    /\ history' = Append(history,
           Returned("getNextRecommendation", calls[i].input, <<>>))
    /\ UNCHANGED <<watchlist, watchlist_id_seq, users, user_profiles_id_seq, media, interactions, recs, now>>

GetNextSelectsRow(i) ==
    /\ calls[i].op = "getNextRecommendation" /\ calls[i].pc = "select"
    /\ \E row \in NextUnshown(recs, media, calls[i].input.user_id,
                      calls[i].input.session_id) :
          calls' = Replaced(calls, i, Call("getNextRecommendation",
                       calls[i].input, "update", <<row>>))
    /\ UNCHANGED <<watchlist, watchlist_id_seq, users, user_profiles_id_seq, media, interactions, recs, now, history>>

GetNextUpdates(i) ==
    /\ calls[i].op = "getNextRecommendation" /\ calls[i].pc = "update"
    /\ recs' = MarkShown(recs, calls[i].found[1].id)
    /\ calls' = Without(calls, i)
    /\ history' = Append(history,
           Returned("getNextRecommendation", calls[i].input, calls[i].found))
    /\ UNCHANGED <<watchlist, watchlist_id_seq, users, user_profiles_id_seq, media, interactions, now>>

(* -- createUserInteraction, statement by statement ---------------------- *)
InteractionBeginsRejected(input) ==
    /\ ~TruthyId(input.user_id) /\ ~TruthyStr(input.session_id)
    /\ history' = Append(history,
           Threw("createUserInteraction", input, NoActorError))
    /\ UNCHANGED <<watchlist, watchlist_id_seq, users, user_profiles_id_seq, media, interactions, recs, now, calls>>

InteractionBegins(input) ==
    /\ ~(~TruthyId(input.user_id) /\ ~TruthyStr(input.session_id))
    /\ calls' = Append(calls, Call("createUserInteraction", input,
                    IF TruthyId(input.user_id) THEN "checkUser" ELSE "checkMedia",
                    <<>>))
    /\ UNCHANGED <<watchlist, watchlist_id_seq, users, user_profiles_id_seq, media, interactions, recs, now, history>>

InteractionChecksUser(i) ==
    /\ calls[i].op = "createUserInteraction" /\ calls[i].pc = "checkUser"
    /\ IF UserExists(users, calls[i].input.user_id)
       THEN /\ calls' = Replaced(calls, i, [calls[i] EXCEPT !.pc = "checkMedia"])
            /\ UNCHANGED history
       ELSE /\ calls' = Without(calls, i)
            /\ history' = Append(history, Threw("createUserInteraction",
                              calls[i].input, UserMissingError))
    /\ UNCHANGED <<watchlist, watchlist_id_seq, users, user_profiles_id_seq, media, interactions, recs, now>>

InteractionChecksMedia(i) ==
    /\ calls[i].op = "createUserInteraction" /\ calls[i].pc = "checkMedia"
    /\ IF MediaExists(media, calls[i].input.media_item_id)
       THEN /\ calls' = Replaced(calls, i, [calls[i] EXCEPT !.pc = "find"])
            /\ UNCHANGED history
       ELSE /\ calls' = Without(calls, i)
            /\ history' = Append(history, Threw("createUserInteraction",
                              calls[i].input, MediaMissingError))
    /\ UNCHANGED <<watchlist, watchlist_id_seq, users, user_profiles_id_seq, media, interactions, recs, now>>

InteractionFindsNone(i) ==
    /\ calls[i].op = "createUserInteraction" /\ calls[i].pc = "find"
    /\ ExistingInteraction(interactions, calls[i].input) = {}
    /\ calls' = Replaced(calls, i, [calls[i] EXCEPT !.pc = "insert"])
    /\ UNCHANGED <<watchlist, watchlist_id_seq, users, user_profiles_id_seq, media, interactions, recs, now, history>>

InteractionFindsRow(i) ==
    /\ calls[i].op = "createUserInteraction" /\ calls[i].pc = "find"
    /\ \E existing \in ExistingInteraction(interactions, calls[i].input) :
          calls' = Replaced(calls, i,
                       [calls[i] EXCEPT !.pc = "update", !.found = <<existing>>])
    /\ UNCHANGED <<watchlist, watchlist_id_seq, users, user_profiles_id_seq, media, interactions, recs, now, history>>

InteractionWritesUpdate(i) ==
    /\ calls[i].op = "createUserInteraction" /\ calls[i].pc = "update"
    /\ LET table == UpdateInteraction(interactions, calls[i].found[1].id,
                        calls[i].input.interaction_type, now + 1)
       IN /\ interactions' = table
          /\ history' = Append(history, Returned("createUserInteraction",
                            calls[i].input, <<table[calls[i].found[1].id]>>))
    /\ now' = now + 1
    /\ calls' = Without(calls, i)
    /\ UNCHANGED <<watchlist, watchlist_id_seq, users, user_profiles_id_seq, media, recs>>

InteractionWritesInsert(i) ==
    /\ calls[i].op = "createUserInteraction" /\ calls[i].pc = "insert"
    /\ LET row == InteractionRow(Len(interactions) + 1, calls[i].input, now + 1)
       IN /\ interactions' = Append(interactions, row)
          /\ history' = Append(history,
                 Returned("createUserInteraction", calls[i].input, <<row>>))
    /\ now' = now + 1
    /\ calls' = Without(calls, i)
    /\ UNCHANGED <<watchlist, watchlist_id_seq, users, user_profiles_id_seq, media, recs>>

(* -- concurrent getNextRecommendation calls after one generation --------- *)
ConcurrentActors == {<<1, V>>, <<U, "s1">>}

ConcurrentGetNextInputs ==
    {RecommendationsInput(a[1], a[2], DefaultLimit) : a \in ConcurrentActors}

InitNextConc ==
    /\ users = Profiles
    /\ user_profiles_id_seq = Len(Profiles)
    /\ media = CatalogGraded
    /\ interactions = <<>>
    /\ watchlist = <<>>
    /\ watchlist_id_seq = 0
    /\ calls = <<>>
    /\ \E a \in ConcurrentActors : \E limit \in {1, 2} :
       \E rows \in GeneratedRows(<<>>, CatalogGraded, <<>>, 0,
                       RecommendationsInput(a[1], a[2], limit)) :
          /\ recs = TableWith(<<>>, rows)
          /\ now = Len(rows)
          /\ history = <<Returned("generateRecommendations",
                            RecommendationsInput(a[1], a[2], limit), rows)>>

NextNextConc ==
    \/ \E input \in ConcurrentGetNextInputs :
          Len(history) + Len(calls) < MaxConcurrentCalls /\ GetNextBegins(input)
    \/ \E i \in DOMAIN calls : GetNextSelectsNone(i)
    \/ \E i \in DOMAIN calls : GetNextSelectsRow(i)
    \/ \E i \in DOMAIN calls : GetNextUpdates(i)

SpecNextConc == InitNextConc /\ [][NextNextConc]_vars

(* -- concurrent createUserInteraction calls ------------------------------ *)
ConcurrentInteractionInputs ==
    {InteractionInput(a[1], a[2], m, t) :
        a \in {<<1, V>>, <<U, "s1">>, <<2, V>>, <<U, V>>}, m \in {1, 4},
        t \in {"like", "dislike"}}

NextInteractConc ==
    \/ \E input \in ConcurrentInteractionInputs :
          /\ Len(history) + Len(calls) < MaxConcurrentInteractions + 1
          /\ InteractionBeginsRejected(input)
    \/ \E input \in ConcurrentInteractionInputs :
          /\ Len(history) + Len(calls) < MaxConcurrentInteractions + 1
          /\ InteractionBegins(input)
    \/ \E i \in DOMAIN calls : InteractionChecksUser(i)
    \/ \E i \in DOMAIN calls : InteractionChecksMedia(i)
    \/ \E i \in DOMAIN calls : InteractionFindsNone(i)
    \/ \E i \in DOMAIN calls : InteractionFindsRow(i)
    \/ \E i \in DOMAIN calls : InteractionWritesUpdate(i)
    \/ \E i \in DOMAIN calls : InteractionWritesInsert(i)

SpecInteractConc == Init /\ [][NextInteractConc]_vars

(***************************************************************************)
(* Properties of generateRecommendations (SpecGen).                        *)
(***************************************************************************)
GenerateCalls ==
    {i \in DOMAIN history :
        history[i].op = "generateRecommendations" /\ history[i].ok}

(* A stored row is the actor's when it carries an identifier the input     *)
(* supplies.                                                               *)
IsActorRow(row, input) ==
    \/ input.user_id # UndefinedId /\ row.user_id = input.user_id
    \/ input.session_id # UndefinedStr /\ row.session_id = input.session_id

ActorInteractions(input) ==
    {r \in Range(interactions) : IsActorRow(r, input)}

ActorLiked(input) ==
    {media[r.media_item_id] :
        r \in {q \in ActorInteractions(input) :
                  q.interaction_type \in {"like", "watched_liked"}}}

(* The scoring rule in hundredths, before and after the clamp.             *)
RuleSum(item, input) ==
    LET likedGenres == UNION {Range(l.genres) : l \in ActorLiked(input)}
        likedKinds == {l.media_type : l \in ActorLiked(input)}
    IN 30 + 20 * Cardinality(Range(item.genres) \cap likedGenres)
          + (IF item.vote_average >= 80 THEN 20
             ELSE IF item.vote_average >= 70 THEN 10 ELSE 0)
          + (IF item.media_type \in likedKinds THEN 10 ELSE 0)
          + (IF item.popularity > 50000 THEN 5 ELSE 0)

RuleScore(item, input) ==
    IF RuleSum(item, input) > 100 THEN 100 ELSE RuleSum(item, input)

(* C5: whatever the kind of the interaction, an item for which the actor   *)
(* has an interaction row when generateRecommendations reads the           *)
(* interactions is never the media item of a row that call creates.        *)
NeverRecommendsInteracted ==
    \A g \in GenerateCalls : \A k \in DOMAIN history[g].rows :
        history[g].rows[k].media_item_id \notin
            {r.media_item_id : r \in ActorInteractions(history[g].input)}

(* A call created rows although the actor had interacted, with a kind that *)
(* is not a like, with an item of the catalog.                             *)
RecommendsAroundInteracted ==
    \E g \in GenerateCalls :
        /\ history[g].rows # <<>>
        /\ \E r \in ActorInteractions(history[g].input) :
              r.interaction_type \in {"dislike", "watched_disliked",
                                      "add_to_watchlist", "remove_from_watchlist"}

(* C6: every recommendation row created has a score between 0 and 1        *)
(* inclusive (0 and 10000 ten-thousandths).                                *)
ScoreWithinUnitInterval ==
    /\ \A i \in DOMAIN recs : recs[i].score >= 0 /\ recs[i].score <= 10000
    /\ \A g \in GenerateCalls : \A k \in DOMAIN history[g].rows :
          history[g].rows[k].score >= 0 /\ history[g].rows[k].score <= 10000

(* A row was created for an item whose bonuses add up to more than 1.      *)
ScoreWasClamped ==
    \E g \in GenerateCalls : \E k \in DOMAIN history[g].rows :
        /\ RuleSum(media[history[g].rows[k].media_item_id], history[g].input) > 100
        /\ history[g].rows[k].score = 10000
        /\ history[g].rows[k] \in Range(recs)

(* The scenario of C7: the catalog is a liked movie [Action, Adventure]    *)
(* rated 9.0, item A [Action] rated 8.5 of popularity 60 and item B        *)
(* [Comedy] rated 6.0 of popularity 10; the actor's one interaction is the *)
(* like; the call asks for one recommendation.                             *)
ScenarioCatalog ==
    /\ Len(media) = 3
    /\ media[1].media_type = "movie"
    /\ Range(media[1].genres) = {"Action", "Adventure"}
    /\ media[1].vote_average = 90
    /\ media[2].genres = <<"Action">>
    /\ media[2].vote_average = 85 /\ media[2].popularity = 60000
    /\ media[3].genres = <<"Comedy">>
    /\ media[3].vote_average = 60 /\ media[3].popularity = 10000

ScenarioCall ==
    /\ ScenarioCatalog
    /\ Len(history) = 1
    /\ history[1].op = "generateRecommendations"
    /\ history[1].input.limit = 1
    /\ Len(interactions) = 1
    /\ interactions[1].media_item_id = 1
    /\ interactions[1].interaction_type = "like"
    /\ IsActorRow(interactions[1], history[1].input)

(* C7 as stated: in the scenario the call returns exactly item A, with     *)
(* score 1.0 and a reason that contains "Action".                          *)
ScenarioReturnsItemAWithScoreOne ==
    ScenarioCall =>
        /\ history[1].ok
        /\ Len(history[1].rows) = 1
        /\ history[1].rows[1].media_item_id = 2
        /\ history[1].rows[1].score = 10000
        /\ "Action" \in Range(history[1].rows[1].reason)

(* C7, amended: in the scenario, when item A is a movie like the liked     *)
(* item, the call returns exactly item A, with score 0.85                  *)
(* (0.3 + 0.2 + 0.2 + 0.1 + 0.05, below the clamp) and a reason that       *)
(* contains "Action".                                                      *)
ScenarioReturnsItemA ==
    ScenarioCall /\ media[2].media_type = "movie" =>
        /\ history[1].ok
        /\ Len(history[1].rows) = 1
        /\ history[1].rows[1].media_item_id = 2
        /\ history[1].rows[1].score = 8500
        /\ "Action" \in Range(history[1].rows[1].reason)

(* The scenario's call has returned, item A being a movie.                 *)
ScenarioCallReturned ==
    /\ ScenarioCall
    /\ media[2].media_type = "movie"
    /\ history[1].ok
    /\ Len(recs) = 1

(* C8: the score of every row created equals                               *)
(* min(1, 0.30 + 0.20 x overlap + ratingBonus + kindBonus + popularityBonus)*)
(* in two-decimal fixed point: overlap counts the candidate's genres in    *)
(* the liked genre set, ratingBonus is 0.20 from 8.0, 0.10 from 7.0 up to  *)
(* 8.0 and 0 below, kindBonus is 0.10 for a liked kind, popularityBonus is *)
(* 0.05 for a popularity strictly above 50.                                *)
ScoreFollowsRule ==
    \A g \in GenerateCalls : \A k \in DOMAIN history[g].rows :
        history[g].rows[k].score =
            100 * RuleScore(media[history[g].rows[k].media_item_id], history[g].input)

(* The actor having liked something, a row was created for an item rated  *)
(* exactly 8.0 and of popularity exactly 50: it has the higher rating      *)
(* bonus and no popularity bonus.                                          *)
ScoredAtThresholds ==
    \E g \in GenerateCalls :
        /\ ActorLiked(history[g].input) # {}
        /\ \E k \in DOMAIN history[g].rows :
              /\ media[history[g].rows[k].media_item_id].popularity = 50000
              /\ media[history[g].rows[k].media_item_id].vote_average = 80
              /\ history[g].rows[k].score >= 5000

(***************************************************************************)
(* Properties of the recommendations table and of getNextRecommendation    *)
(* running alone (Spec).                                                   *)
(***************************************************************************)
(* The call a step completes; Len(history') = Len(history) + 1 there.      *)
Completed == history'[Len(history')]

(* C3: the shown flag of a recommendation row only ever changes from false *)
(* to true; getNextRecommendation is the only operation that modifies an   *)
(* existing recommendation row; no operation deletes one.                  *)
RecommendationRowsOnlyGetShown ==
    [][\A i \in DOMAIN recs :
          /\ i \in DOMAIN recs'
          /\ \/ recs'[i] = recs[i]
             \/ /\ recs[i].shown = FALSE
                /\ recs'[i] = [recs[i] EXCEPT !.shown = TRUE]
                /\ Len(history') = Len(history) + 1
                /\ Completed.op = "getNextRecommendation"]_vars

(* A row was returned and marked shown, and a later call of                *)
(* generateRecommendations added rows to the table.                        *)
ShownRowOutlivesGeneration ==
    \E i, j \in DOMAIN history :
        /\ i < j
        /\ history[i].op = "getNextRecommendation"
        /\ history[i].rows # <<>>
        /\ history[j].op = "generateRecommendations"
        /\ history[j].rows # <<>>
        /\ \E k \in DOMAIN recs :
              recs[k].id = history[i].rows[1].id /\ recs[k].shown

(* The actor's rows for getNextRecommendation: user_id equality when a     *)
(* user_id is supplied, session_id equality otherwise.                     *)
ActorUnshown(input) ==
    {k \in DOMAIN recs :
        /\ recs[k].shown = FALSE
        /\ IF input.user_id # UndefinedId
           THEN recs[k].user_id = input.user_id
           ELSE recs[k].session_id = input.session_id}

(* C4: a getNextRecommendation call running alone while the actor has at   *)
(* least one unshown row returns a row of that actor whose score is the    *)
(* maximum among the actor's unshown rows, and afterwards exactly that row *)
(* has changed, to shown = true.                                           *)
GetNextReturnsBestUnshown ==
    [][(/\ Len(history') = Len(history) + 1
        /\ Completed.op = "getNextRecommendation"
        /\ ActorUnshown(Completed.input) # {})
       => /\ Len(Completed.rows) = 1
          /\ \E k \in ActorUnshown(Completed.input) :
                /\ Completed.rows[1] = recs[k]
                /\ \A q \in ActorUnshown(Completed.input) :
                      recs[q].score <= recs[k].score
                /\ recs' = [recs EXCEPT ![k].shown = TRUE]]_vars

(* A call returned a row while the table held an unshown row of the same   *)
(* actor with a lower score and an unshown row of another actor.           *)
ReturnedBestOfSeveral ==
    /\ history # <<>>
    /\ history[Len(history)].op = "getNextRecommendation"
    /\ history[Len(history)].rows # <<>>
    /\ \E k \in DOMAIN recs :
          /\ recs[k].shown = FALSE
          /\ recs[k].user_id = history[Len(history)].rows[1].user_id
          /\ recs[k].session_id = history[Len(history)].rows[1].session_id
          /\ recs[k].score < history[Len(history)].rows[1].score
    /\ \E k \in DOMAIN recs :
          /\ recs[k].shown = FALSE
          /\ recs[k].user_id # history[Len(history)].rows[1].user_id

(***************************************************************************)
(* Draining an actor's recommendations one call after another (SpecDrain). *)
(***************************************************************************)
SameActor(a, b) == a.user_id = b.user_id /\ a.session_id = b.session_id

(* Call g created rows for its actor in a store that held none for it.     *)
GeneratesIntoEmpty(g) ==
    /\ g \in GenerateCalls
    /\ \A j \in 1..(g - 1) : \A k \in DOMAIN history[j].rows :
          history[j].op = "generateRecommendations"
              => ~IsActorRow(history[j].rows[k], history[g].input)

(* The n calls after call g are getNextRecommendation calls with the       *)
(* input's actor.                                                          *)
DrainedBy(g, n) ==
    \A j \in (g + 1)..(g + n) :
        /\ j \in DOMAIN history
        /\ history[j].op = "getNextRecommendation"
        /\ SameActor(history[j].input, history[g].input)

DrainsInOrder(g) ==
    LET N == Len(history[g].rows)
    IN \A n \in 1..(N + 1) :
          DrainedBy(g, n) =>
             IF n <= N
             THEN /\ history[g + n].rows # <<>>
                  /\ \A m \in 1..(n - 1) :
                        /\ history[g + m].rows[1].id # history[g + n].rows[1].id
                        /\ history[g + m].rows[1].score >= history[g + n].rows[1].score
             ELSE history[g + n].rows = <<>>

(* C2: from a store that holds no recommendation row for an actor, after   *)
(* one generateRecommendations call that created N rows for that actor,    *)
(* N + 1 successive getNextRecommendation calls with the same actor input  *)
(* return N non-null, pairwise distinct rows in non-increasing score       *)
(* order, and then null.                                                   *)
DrainReturnsAllThenNull ==
    \A g \in DOMAIN history : GeneratesIntoEmpty(g) => DrainsInOrder(g)

(* The same for actor inputs whose user_id, when supplied, is not 0.       *)
DrainReturnsAllThenNullForNonZeroIds ==
    \A g \in DOMAIN history :
        GeneratesIntoEmpty(g) /\ history[g].input.user_id # 0 => DrainsInOrder(g)

(* Two rows were created and three calls drained them.                     *)
DrainedTwoRows ==
    \E g \in DOMAIN history :
        /\ GeneratesIntoEmpty(g)
        /\ Len(history[g].rows) = 2
        /\ DrainedBy(g, 3)
        /\ history[g + 3].rows = <<>>

(***************************************************************************)
(* createUserInteraction called with one actor identifier, one call after  *)
(* another (SpecInteract).                                                 *)
(***************************************************************************)
RecordedCalls ==
    {i \in DOMAIN history :
        history[i].op = "createUserInteraction" /\ history[i].ok}

(* The stored rows of the (actor, media item) pair of an input.            *)
PairRows(input) ==
    {k \in DOMAIN interactions :
        /\ interactions[k].media_item_id = input.media_item_id
        /\ IsActorRow(interactions[k], input)}

SamePair(a, b) == SameActor(a, b) /\ a.media_item_id = b.media_item_id

(* C10: when createUserInteraction calls, each with a single actor         *)
(* identifier, run one after another, recording an interaction for a pair  *)
(* that already has a row never adds a row for that pair (there stays      *)
(* exactly one), and the stored and the returned interaction_type are the  *)
(* most recent call's.                                                     *)
OneRowPerPairLastTypeWins ==
    \A i \in RecordedCalls :
        /\ Cardinality(PairRows(history[i].input)) = 1
        /\ Len(history[i].rows) = 1
        /\ history[i].rows[1].interaction_type = history[i].input.interaction_type
        /\ (\A j \in RecordedCalls : j > i => ~SamePair(history[j].input, history[i].input))
              => \A k \in PairRows(history[i].input) :
                    /\ interactions[k].interaction_type = history[i].input.interaction_type
                    /\ interactions[k] = history[i].rows[1]

(* A pair was recorded twice, with different types, among other pairs.     *)
RecordedPairAgain ==
    \E i, j \in RecordedCalls :
        /\ i < j
        /\ SamePair(history[i].input, history[j].input)
        /\ history[i].input.interaction_type # history[j].input.interaction_type
        /\ history[j].rows[1].id = history[i].rows[1].id
        /\ Len(interactions) > 1

(***************************************************************************)
(* Concurrent calls (SpecNextConc, SpecInteractConc).                      *)
(***************************************************************************)
(* C1: whatever the interleaving of concurrent getNextRecommendation       *)
(* calls, no recommendation row is returned by more than one call.         *)
NoRowReturnedTwice ==
    \A i, j \in DOMAIN history :
        (/\ i < j
         /\ history[i].op = "getNextRecommendation"
         /\ history[j].op = "getNextRecommendation"
         /\ history[i].rows # <<>>
         /\ history[j].rows # <<>>)
        => history[i].rows[1].id # history[j].rows[1].id

(* C9: concurrent createUserInteraction calls for the same (actor, media   *)
(* item) pair never leave two rows for that pair.                          *)
NoTwoRowsForOnePair ==
    \A i, j \in DOMAIN interactions :
        (/\ interactions[i].media_item_id = interactions[j].media_item_id
         /\ interactions[i].user_id = interactions[j].user_id
         /\ interactions[i].session_id = interactions[j].session_id)
        => i = j

(***************************************************************************)
(* createUserInteraction with every shape of input the schema accepts,     *)
(* one call after another (SpecInteractAny).                               *)
(***************************************************************************)
AnyActorInputs ==
    {InteractionInput(a[1], a[2], m, t) :
        a \in {<<1, V>>, <<U, "s1">>, <<1, "s1">>, <<0, "s1">>, <<2, V>>, <<U, V>>},
        m \in {1, 4}, t \in {"like", "dislike"}}

NextInteractAny ==
    \E input \in AnyActorInputs :
        Len(history) < MaxInteractionCalls /\ CreateUserInteraction(input)

SpecInteractAny == Init /\ [][NextInteractAny]_vars

(* The inputs createUserInteraction must refuse: no identifier supplied,   *)
(* an unknown media item, or a supplied user_id without a profile.         *)
NeitherSupplied(input) ==
    input.user_id = UndefinedId /\ input.session_id = UndefinedStr

UnknownMedia(input) == \A i \in DOMAIN media : media[i].id # input.media_item_id

UnknownUser(input) ==
    /\ input.user_id # UndefinedId
    /\ \A i \in DOMAIN users : users[i].id # input.user_id

(* C11: createUserInteraction ends in an error and leaves the interaction  *)
(* table unchanged when neither user_id nor session_id is supplied, when   *)
(* the media_item_id is not in the media table, and when a user_id is      *)
(* supplied that is not in the user-profile table.                         *)
RefusedInteractionsChangeNothing ==
    [][(/\ Len(history') = Len(history) + 1
        /\ Completed.op = "createUserInteraction"
        /\ \/ NeitherSupplied(Completed.input)
           \/ UnknownMedia(Completed.input)
           \/ UnknownUser(Completed.input))
       => /\ ~Completed.ok
          /\ interactions' = interactions]_vars

(* The same when the supplied user_id is not 0.                            *)
RefusedInteractionsChangeNothingForNonZeroIds ==
    [][(/\ Len(history') = Len(history) + 1
        /\ Completed.op = "createUserInteraction"
        /\ Completed.input.user_id # 0
        /\ \/ NeitherSupplied(Completed.input)
           \/ UnknownMedia(Completed.input)
           \/ UnknownUser(Completed.input))
       => /\ ~Completed.ok
          /\ interactions' = interactions]_vars

(***************************************************************************)
(* Further properties of generateRecommendations.                          *)
(***************************************************************************)
(* C12: generateRecommendations called with neither user_id nor session_id *)
(* ends in the error 'Either user_id or session_id must be provided',      *)
(* whatever the store holds, and creates no recommendation row: no table   *)
(* changes.                                                                *)
GenerateWithoutActorIsRefused ==
    [][(/\ Len(history') = Len(history) + 1
        /\ Completed.op = "generateRecommendations"
        /\ NeitherSupplied(Completed.input))
       => /\ ~Completed.ok
          /\ Completed.error = "Either user_id or session_id must be provided"
          /\ Completed.rows = <<>>
          /\ UNCHANGED <<watchlist, watchlist_id_seq, users, user_profiles_id_seq, media, interactions, recs>>]_vars

(* The call was refused in a store that holds interactions and             *)
(* recommendation rows.                                                    *)
RefusedGenerateOnFilledStore ==
    /\ history # <<>>
    /\ history[Len(history)].op = "generateRecommendations"
    /\ NeitherSupplied(history[Len(history)].input)
    /\ ~history[Len(history)].ok
    /\ recs # <<>>
    /\ interactions # <<>>

(* The catalog items outside the exclusion set that pass the kind filter:  *)
(* not interacted with by the actor and, when the actor likes exactly one  *)
(* kind, of that kind.                                                     *)
Eligible(input) ==
    LET likedKinds == {l.media_type : l \in ActorLiked(input)}
    IN {i \in DOMAIN media :
           /\ media[i].id \notin {r.media_item_id : r \in ActorInteractions(input)}
           /\ (Cardinality(likedKinds) = 1 => media[i].media_type \in likedKinds)}

(* C13: a successful generateRecommendations call returns and persists     *)
(* exactly min(limit, E) rows, E being the number of catalog items outside *)
(* the exclusion set that pass the kind filter; it never returns more than *)
(* limit rows, and with E = 0 it returns an empty list without an error.   *)
GeneratesMinOfLimitAndEligible ==
    \A g \in DOMAIN history :
        history[g].op = "generateRecommendations" =>
            LET E == Cardinality(Eligible(history[g].input))
                limit == history[g].input.limit
            IN /\ history[g].ok =>
                    /\ Len(history[g].rows) = (IF E < limit THEN E ELSE limit)
                    /\ Len(recs) = Len(history[g].rows)
                    /\ \A k \in DOMAIN history[g].rows :
                          history[g].rows[k] \in Range(recs)
               /\ ~history[g].ok =>
                    history[g].error = "Either user_id or session_id must be provided"

(* More items were eligible than asked for and limit rows were returned.   *)
GeneratedLimitOfMore ==
    \E g \in GenerateCalls :
        /\ Cardinality(Eligible(history[g].input)) > history[g].input.limit
        /\ Len(history[g].rows) = history[g].input.limit
        /\ ActorInteractions(history[g].input) # {}

(* No item was eligible and the call returned an empty list.               *)
GeneratedNothing ==
    \E g \in GenerateCalls :
        /\ Eligible(history[g].input) = {}
        /\ history[g].rows = <<>>

BothSupplied(input) ==
    input.user_id # UndefinedId /\ input.session_id # UndefinedStr

(* The interaction rows under either identifier of an input.               *)
RowsOfUser(input) ==
    {r \in Range(interactions) : r.user_id = input.user_id}

RowsOfSession(input) ==
    {r \in Range(interactions) : r.session_id = input.session_id}

LikedUnder(rows) ==
    {media[r.media_item_id] :
        r \in {q \in rows : q.interaction_type \in {"like", "watched_liked"}}}

(* C14: when generateRecommendations is called with both user_id and       *)
(* session_id, the exclusion set and the liked genre and kind sets are     *)
(* those of the union of the rows matching the user_id and the rows        *)
(* matching the session_id: no item interacted with under either           *)
(* identifier is recommended, the kind filter and the scores follow the    *)
(* union's liked sets.                                                     *)
BothIdentifiersUseUnion ==
    \A g \in GenerateCalls :
        BothSupplied(history[g].input) =>
            LET union == RowsOfUser(history[g].input) \cup RowsOfSession(history[g].input)
                likedGenres == UNION {Range(l.genres) : l \in LikedUnder(union)}
                likedKinds == {l.media_type : l \in LikedUnder(union)}
            IN \A k \in DOMAIN history[g].rows :
                  LET item == media[history[g].rows[k].media_item_id]
                      sum == 30 + 20 * Cardinality(Range(item.genres) \cap likedGenres)
                                + (IF item.vote_average >= 80 THEN 20
                                   ELSE IF item.vote_average >= 70 THEN 10 ELSE 0)
                                + (IF item.media_type \in likedKinds THEN 10 ELSE 0)
                                + (IF item.popularity > 50000 THEN 5 ELSE 0)
                  IN /\ item.id \notin {r.media_item_id : r \in union}
                     /\ (Cardinality(likedKinds) = 1 => item.media_type \in likedKinds)
                     /\ history[g].rows[k].score = 100 * (IF sum > 100 THEN 100 ELSE sum)

(* A call with both identifiers created rows while the user had liked one  *)
(* item and the session had interacted with another.                       *)
GeneratedForUserAndSession ==
    \E g \in GenerateCalls :
        /\ BothSupplied(history[g].input)
        /\ history[g].rows # <<>>
        /\ LikedUnder(RowsOfUser(history[g].input)) # {}
        /\ \E r \in RowsOfSession(history[g].input) :
              \A q \in RowsOfUser(history[g].input) :
                  q.media_item_id # r.media_item_id

(* What a generateRecommendations step does to the recommendations table:  *)
(* it appends min(limit, E) unshown rows for eligible items, which are the *)
(* rows it returns, carrying the identifiers storedUser and storedSession, *)
(* and leaves the rows already stored as they were.  E and the eligible    *)
(* items are read from the interactions and the catalog alone.             *)
AppendsRows(input, rows, storedUser, storedSession) ==
    LET E == Cardinality(Eligible(input))
        n == Len(recs') - Len(recs)
    IN /\ n >= 0 /\ n <= input.limit
       /\ n = (IF E < input.limit THEN E ELSE input.limit)
       /\ n = Len(rows)
       /\ \A i \in DOMAIN recs : recs'[i] = recs[i]
       /\ \A i \in (Len(recs) + 1)..Len(recs') :
             /\ recs'[i] \in Range(rows)
             /\ recs'[i].shown = FALSE
             /\ recs'[i].user_id = storedUser
             /\ recs'[i].session_id = storedSession
             /\ recs'[i].media_item_id \in {media[e].id : e \in Eligible(input)}

GenerateStep ==
    /\ Len(history') = Len(history) + 1
    /\ Completed.op = "generateRecommendations"

GetNextStep ==
    /\ Len(history') = Len(history) + 1
    /\ Completed.op = "getNextRecommendation"

(* C16: getNextRecommendation for an actor with no unshown recommendation  *)
(* row (no row at all, or only rows with shown = true) returns null, not   *)
(* an error, and leaves every table unchanged.                             *)
NothingUnshownReturnsNull ==
    [][(GetNextStep /\ ActorUnshown(Completed.input) = {})
       => /\ Completed.ok
          /\ Completed.rows = <<>>
          /\ UNCHANGED <<watchlist, watchlist_id_seq, users, user_profiles_id_seq, media, interactions, recs>>]_vars

(* A call returned null to an actor whose rows had all been shown.         *)
ReturnedNullAfterLastRow ==
    /\ history # <<>>
    /\ history[Len(history)].op = "getNextRecommendation"
    /\ history[Len(history)].ok
    /\ history[Len(history)].rows = <<>>
    /\ \E k \in DOMAIN recs :
          /\ recs[k].shown
          /\ IF history[Len(history)].input.user_id # UndefinedId
             THEN recs[k].user_id = history[Len(history)].input.user_id
             ELSE recs[k].session_id = history[Len(history)].input.session_id

(* C17: getNextRecommendation breaks score ties deterministically: the     *)
(* row returned is a function of the store contents alone, so in every     *)
(* store state a call has one possible result, also when several unshown   *)
(* rows of the actor share the maximum score.                              *)
NextRowIsDetermined ==
    \A input \in GetNextInputs :
        \A r, q \in NextUnshown(recs, media, input.user_id, input.session_id) :
            r = q

(* The unshown rows that carry neither identifier.                         *)
UnshownWithoutActor ==
    {k \in DOMAIN recs :
        /\ recs[k].shown = FALSE
        /\ recs[k].user_id = NullId
        /\ recs[k].session_id = NullStr}

(* C18: getNextRecommendation called with neither user_id nor session_id   *)
(* does not fail: it considers only unshown rows whose user_id and         *)
(* session_id are both null, never returns a row that has either           *)
(* identifier set, and returns null when there is no such row.             *)
WithoutActorOnlyRowsWithoutActor ==
    [][(GetNextStep /\ NeitherSupplied(Completed.input))
       => /\ Completed.ok
          /\ \A k \in DOMAIN Completed.rows :
                /\ Completed.rows[k].user_id = NullId
                /\ Completed.rows[k].session_id = NullStr
                /\ Completed.rows[k].shown = FALSE
          /\ UnshownWithoutActor = {} =>
                Completed.rows = <<>> /\ recs' = recs]_vars

(* A call without identifiers returned null while unshown rows of a user   *)
(* or a session were stored.                                               *)
ReturnedNullWithoutActor ==
    /\ history # <<>>
    /\ history[Len(history)].op = "getNextRecommendation"
    /\ NeitherSupplied(history[Len(history)].input)
    /\ history[Len(history)].ok
    /\ history[Len(history)].rows = <<>>
    /\ \E k \in DOMAIN recs : recs[k].shown = FALSE

(***************************************************************************)
(* The watchlist table and its handlers                                    *)
(***************************************************************************)
(* WatchlistInput: user_id?, session_id?, media_item_id.                   *)
WatchlistInput(u, s, m) == Input(u, s, NotApplicable, m, "")

(* addToWatchlist: the conditions of the lookup.  The item always; the     *)
(* user when `input.user_id` is truthy, else the session when              *)
(* `input.session_id` is truthy, else nothing more.                        *)
AddConditions(row, input) ==
    /\ row.media_item_id = input.media_item_id
    /\ IF TruthyId(input.user_id) THEN row.user_id = input.user_id
       ELSE IF TruthyStr(input.session_id)
            THEN row.session_id = input.session_id
            ELSE TRUE

(* select ... limit(1) without an order: any of the matching rows.         *)
ExistingEntry(table, input) ==
    {k \in DOMAIN table : AddConditions(table[k], input)}

WatchlistRow(id, input, clock) ==
    [id |-> id,
     user_id |-> IdOrNull(input.user_id),
     session_id |-> StrOrNull(input.session_id),
     media_item_id |-> input.media_item_id,
     created_at |-> clock]

AddReturnsExisting(input) ==
    /\ \E k \in ExistingEntry(watchlist, input) :
          history' = Append(history,
                            Returned("addToWatchlist", input, <<watchlist[k]>>))
    /\ UNCHANGED <<watchlist, watchlist_id_seq, users, user_profiles_id_seq, media, interactions,
                   recs, now, calls>>

AddInserts(input) ==
    /\ ExistingEntry(watchlist, input) = {}
    /\ LET row == WatchlistRow(watchlist_id_seq + 1, input, now + 1)
       IN  /\ watchlist' = Append(watchlist, row)
           /\ history' = Append(history,
                                Returned("addToWatchlist", input, <<row>>))
    /\ watchlist_id_seq' = watchlist_id_seq + 1
    /\ now' = now + 1
    /\ UNCHANGED <<users, user_profiles_id_seq, media, interactions, recs, calls>>

AddToWatchlist(input) == AddReturnsExisting(input) \/ AddInserts(input)

(* Variant: the delete is by media item alone.                             *)
RemoveConditionsItemOnly(row, input) ==
    row.media_item_id = input.media_item_id

(* Variant: the delete is by actor alone, whatever the item.               *)
RemoveConditionsActorOnly(row, input) ==
    IF input.user_id # UndefinedId THEN row.user_id = input.user_id
    ELSE row.session_id = input.session_id

(* removeFromWatchlist: the conditions of the delete.  The item always;    *)
(* the user when `input.user_id !== undefined`, else the session.          *)
RemoveConditions(row, input) ==
    /\ row.media_item_id = input.media_item_id
    /\ IF input.user_id # UndefinedId THEN row.user_id = input.user_id
       ELSE row.session_id = input.session_id

Success(flag) == <<[success |-> flag]>>

(* Neither identifier: `return { success: false }` before any statement.   *)
RemoveRefuses(input) ==
    /\ input.user_id = UndefinedId
    /\ input.session_id = UndefinedStr
    /\ history' = Append(history,
                         Returned("removeFromWatchlist", input, Success(FALSE)))
    /\ UNCHANGED <<watchlist, watchlist_id_seq, users, user_profiles_id_seq, media, interactions,
                   recs, now, calls>>

DeleteEntries(table, input) ==
    SelectSeq(table, LAMBDA row : ~RemoveConditions(row, input))

RemoveDeletes(input) ==
    /\ input.user_id # UndefinedId \/ input.session_id # UndefinedStr
    /\ watchlist' = DeleteEntries(watchlist, input)
    /\ history' = Append(history,
                         Returned("removeFromWatchlist", input, Success(TRUE)))
    /\ UNCHANGED <<watchlist_id_seq, users, user_profiles_id_seq, media, interactions, recs, now,
                   calls>>

RemoveFromWatchlist(input) == RemoveRefuses(input) \/ RemoveDeletes(input)

(* -- SpecWatchlist: watchlist calls, one after another ------------------- *)
MaxWatchlistCalls == 3

WatchlistActors ==
    {<<1, V>>, <<2, V>>, <<U, "s1">>, <<1, "s1">>, <<0, V>>, <<U, V>>}

WatchlistInputs ==
    {WatchlistInput(a[1], a[2], m) : a \in WatchlistActors, m \in {1, 2}}

NextWatchlist ==
    \/ \E input \in WatchlistInputs :
          Len(history) < MaxWatchlistCalls /\ AddReturnsExisting(input)
    \/ \E input \in WatchlistInputs :
          Len(history) < MaxWatchlistCalls /\ AddInserts(input)
    \/ \E input \in WatchlistInputs :
          Len(history) < MaxWatchlistCalls /\ RemoveRefuses(input)
    \/ \E input \in WatchlistInputs :
          Len(history) < MaxWatchlistCalls /\ RemoveDeletes(input)

SpecWatchlist == Init /\ [][NextWatchlist]_vars

(* Exactly one of the two identifiers is supplied.                         *)
SingleIdentifier(input) ==
    (input.user_id # UndefinedId) # (input.session_id # UndefinedStr)

(* The rows of the (actor, item) pair an input names.                      *)
PairEntries(table, input) ==
    {k \in DOMAIN table :
        /\ table[k].media_item_id = input.media_item_id
        /\ IF input.user_id # UndefinedId
           THEN table[k].user_id = input.user_id
           ELSE table[k].session_id = input.session_id}

(* The last two calls were addToWatchlist with one and the same input.     *)
AddedTwice ==
    /\ Len(history) >= 2
    /\ history[Len(history)].op = "addToWatchlist"
    /\ history[Len(history) - 1].op = "addToWatchlist"
    /\ history[Len(history)].input = history[Len(history) - 1].input
    /\ SingleIdentifier(history[Len(history)].input)

OneRowSameId ==
    /\ Cardinality(PairEntries(watchlist, history[Len(history)].input)) = 1
    /\ history[Len(history)].rows[1].id = history[Len(history) - 1].rows[1].id

(* C19 as stated: after two addToWatchlist calls in sequence with the same *)
(* single actor identifier and the same media_item_id there is exactly one *)
(* watchlist row for that pair, and both calls returned the same row id.   *)
AddingTwiceLeavesOneRow == AddedTwice => OneRowSameId

(* The same for an identifier that is neither 0 nor the empty string.      *)
AddingTwiceLeavesOneRowForNonZeroIds ==
    (/\ AddedTwice
     /\ history[Len(history)].input.user_id # 0
     /\ history[Len(history)].input.session_id # "")
    => OneRowSameId

(* Two calls for user 1 stored one row and both returned it.               *)
AddedTwiceForUser ==
    /\ AddedTwice
    /\ history[Len(history)].input.user_id = 1
    /\ OneRowSameId

(* The rows of the pair, counting a row stored with a null identifier as   *)
(* a row of the call that stored it.                                       *)
StoredEntries(table, input) ==
    {k \in DOMAIN table :
        /\ table[k].media_item_id = input.media_item_id
        /\ IF input.user_id # UndefinedId
           THEN table[k].user_id \in {input.user_id, IdOrNull(input.user_id)}
           ELSE table[k].session_id
                    \in {input.session_id, StrOrNull(input.session_id)}}

(* Two calls with the same single identifier leave one row that the calls  *)
(* stored, whatever identifier it was stored under.                        *)
AddingTwiceLeavesOneStoredRow ==
    AddedTwice =>
        Cardinality(StoredEntries(watchlist, history[Len(history)].input)) = 1

RemoveStep ==
    /\ Len(history') = Len(history) + 1
    /\ Completed.op = "removeFromWatchlist"

(* C20: removeFromWatchlist on an (actor, item) pair that has no watchlist *)
(* row returns success = true and leaves the watchlist unchanged; called   *)
(* with neither user_id nor session_id it returns success = false and      *)
(* deletes nothing, even when rows for that media item exist.              *)
RemoveOfMissingPairIsNoOp ==
    [][RemoveStep
       => /\ Completed.ok
          /\ (/\ ~NeitherSupplied(Completed.input)
              /\ PairEntries(watchlist, Completed.input) = {})
             => Completed.rows = Success(TRUE) /\ watchlist' = watchlist
          /\ NeitherSupplied(Completed.input)
             => Completed.rows = Success(FALSE) /\ watchlist' = watchlist]_vars

(* A removal for a pair without a row reported success, and the next call, *)
(* without identifiers, reported failure; the item is still on another     *)
(* actor's watchlist.                                                      *)
RemovedNothingTwice ==
    /\ Len(history) >= 2
    /\ history[Len(history) - 1].op = "removeFromWatchlist"
    /\ ~NeitherSupplied(history[Len(history) - 1].input)
    /\ PairEntries(watchlist, history[Len(history) - 1].input) = {}
    /\ history[Len(history) - 1].rows = Success(TRUE)
    /\ history[Len(history)].op = "removeFromWatchlist"
    /\ NeitherSupplied(history[Len(history)].input)
    /\ history[Len(history)].rows = Success(FALSE)
    /\ history[Len(history)].input.media_item_id
          = history[Len(history) - 1].input.media_item_id
    /\ \E k \in DOMAIN watchlist :
          watchlist[k].media_item_id = history[Len(history)].input.media_item_id

(* The row carries an identifier the input supplies.                       *)
OfActor(row, input) ==
    \/ input.user_id # UndefinedId /\ row.user_id = input.user_id
    \/ input.session_id # UndefinedStr /\ row.session_id = input.session_id

(* C21: removeFromWatchlist for one actor and media item deletes only      *)
(* watchlist rows of that actor for that item; the rows of every other     *)
(* user or session, for the same or another item, and the rows of the same *)
(* actor for other items are unchanged.                                    *)
RemoveDeletesOnlyThePair ==
    [][RemoveStep
       => /\ \A k \in DOMAIN watchlist :
                (~(/\ OfActor(watchlist[k], Completed.input)
                   /\ watchlist[k].media_item_id = Completed.input.media_item_id))
                => \E j \in DOMAIN watchlist' : watchlist'[j] = watchlist[k]
          /\ \A j \in DOMAIN watchlist' :
                \E k \in DOMAIN watchlist : watchlist[k] = watchlist'[j]]_vars

(* A removal deleted the row of its pair and left the row another actor    *)
(* holds for the same item.                                                *)
RemovedBesideAnotherActor ==
    /\ history # <<>>
    /\ history[Len(history)].op = "removeFromWatchlist"
    /\ history[Len(history)].rows = Success(TRUE)
    /\ Len(watchlist) < watchlist_id_seq
    /\ PairEntries(watchlist, history[Len(history)].input) = {}
    /\ \E k \in DOMAIN watchlist :
          /\ watchlist[k].media_item_id = history[Len(history)].input.media_item_id
          /\ ~OfActor(watchlist[k], history[Len(history)].input)

(***************************************************************************)
(* createUserProfile, statement by statement                               *)
(***************************************************************************)
(* CreateUserProfileInput: username, email.                                *)
ProfileInput(username, email) == [username |-> username, email |-> email]

UsernameExistsError == "Username already exists"
EmailExistsError == "Email already exists"
UniqueViolationError == "duplicate key value violates unique constraint"

(* where(or(eq(username, input.username), eq(email, input.email)))         *)
ExistingUsers(table, input) ==
    {k \in DOMAIN table :
        table[k].username = input.username \/ table[k].email = input.email}

(* The error for `existingUsers[0]`: the username is compared first.       *)
ExistingUserError(row, input) ==
    IF row.username = input.username THEN UsernameExistsError
    ELSE EmailExistsError

(* Variant: the table carries no unique constraint.                        *)
NoUniqueConstraint(table, input) == FALSE

(* .unique() on username and on email: the insert is refused by the store  *)
(* when a stored row has the username or the email.                        *)
UniqueViolation(table, input) ==
    \E k \in DOMAIN table :
        table[k].username = input.username \/ table[k].email = input.email

ProfileRow(id, input) ==
    [id |-> id, username |-> input.username, email |-> input.email]

ProfileBegins(input) ==
    /\ calls' = Append(calls, Call("createUserProfile", input, "select", <<>>))
    /\ UNCHANGED <<users, user_profiles_id_seq, media, interactions, recs,
                   watchlist, watchlist_id_seq, now, history>>

(* The select finds nothing: the call goes on to the insert.               *)
ProfileSelectsNone(i) ==
    /\ calls[i].op = "createUserProfile" /\ calls[i].pc = "select"
    /\ ExistingUsers(users, calls[i].input) = {}
    /\ calls' = Replaced(calls, i, [calls[i] EXCEPT !.pc = "insert"])
    /\ UNCHANGED <<users, user_profiles_id_seq, media, interactions, recs,
                   watchlist, watchlist_id_seq, now, history>>

(* The select finds rows; the first of them, in whatever order the store   *)
(* returns them, decides the error.                                        *)
ProfileSelectsExisting(i) ==
    /\ calls[i].op = "createUserProfile" /\ calls[i].pc = "select"
    /\ \E k \in ExistingUsers(users, calls[i].input) :
          history' = Append(history,
              Threw("createUserProfile", calls[i].input,
                    ExistingUserError(users[k], calls[i].input)))
    /\ calls' = Without(calls, i)
    /\ UNCHANGED <<users, user_profiles_id_seq, media, interactions, recs,
                   watchlist, watchlist_id_seq, now>>

ProfileInsertsRow(i) ==
    /\ calls[i].op = "createUserProfile" /\ calls[i].pc = "insert"
    /\ ~UniqueViolation(users, calls[i].input)
    /\ LET row == ProfileRow(user_profiles_id_seq + 1, calls[i].input)
       IN  /\ users' = Append(users, row)
           /\ history' = Append(history,
                  Returned("createUserProfile", calls[i].input, <<row>>))
    /\ user_profiles_id_seq' = user_profiles_id_seq + 1
    /\ calls' = Without(calls, i)
    /\ UNCHANGED <<media, interactions, recs, watchlist, watchlist_id_seq, now>>

(* The store refuses the insert; the serial value is spent all the same.   *)
ProfileInsertFails(i) ==
    /\ calls[i].op = "createUserProfile" /\ calls[i].pc = "insert"
    /\ UniqueViolation(users, calls[i].input)
    /\ history' = Append(history,
           Threw("createUserProfile", calls[i].input, UniqueViolationError))
    /\ user_profiles_id_seq' = user_profiles_id_seq + 1
    /\ calls' = Without(calls, i)
    /\ UNCHANGED <<users, media, interactions, recs, watchlist,
                   watchlist_id_seq, now>>

(* -- SpecProfileConc: createUserProfile calls that interleave ------------ *)
MaxConcurrentProfiles == 3

ProfileInputs ==
    {ProfileInput(n, e) : n \in {"alice", "bob", "carol"},
                          e \in {"alice@example.com", "bob@example.com"}}

NextProfileConc ==
    \/ \E input \in ProfileInputs :
          /\ Len(history) + Len(calls) < MaxConcurrentProfiles
          /\ ProfileBegins(input)
    \/ \E i \in DOMAIN calls : ProfileSelectsNone(i)
    \/ \E i \in DOMAIN calls : ProfileSelectsExisting(i)
    \/ \E i \in DOMAIN calls : ProfileInsertsRow(i)
    \/ \E i \in DOMAIN calls : ProfileInsertFails(i)

SpecProfileConc == Init /\ [][NextProfileConc]_vars

ProfileStep ==
    /\ Len(history') = Len(history) + 1
    /\ Completed.op = "createUserProfile"

(* C22: in every reachable state, including when createUserProfile calls   *)
(* interleave, no two user profiles share a username and no two share an   *)
(* email; a createUserProfile call whose username or email equals that of  *)
(* an existing profile ends in an error and inserts no row.                *)
ProfilesAreUnique ==
    /\ [](\A i, j \in DOMAIN users :
             i # j => /\ users[i].username # users[j].username
                      /\ users[i].email # users[j].email)
    /\ [][(/\ ProfileStep
           /\ \E k \in DOMAIN users :
                 \/ users[k].username = Completed.input.username
                 \/ users[k].email = Completed.input.email)
          => ~Completed.ok /\ users' = users]_vars

(* Two interleaved calls for one new username: the first stored its row    *)
(* and the second, past its own check, was refused by the store.           *)
SecondProfileRefusedByStore ==
    /\ Len(history) >= 2
    /\ history[Len(history)].op = "createUserProfile"
    /\ history[Len(history)].error = UniqueViolationError
    /\ \E k \in DOMAIN users :
          /\ users[k].username = history[Len(history)].input.username
          /\ users[k].username # "alice"
    /\ Len(users) = 2

(***************************************************************************)
(* The ingestion path: createMediaItem and searchMedia.  In this part a    *)
(* title is a sequence of characters, vote_average comes in hundredths and *)
(* popularity in ten-thousandths, and the stored columns keep tenths and   *)
(* thousandths.                                                            *)
(***************************************************************************)
(* numeric(3, 1) and numeric(10, 3): rounded half away from zero.          *)
ToNumeric31(hundredths) == (hundredths + 5) \div 10
ToNumeric103(tenThousandths) == (tenThousandths + 5) \div 10

(* CreateMediaItemInput, and the values storeMediaItems builds.            *)
MediaInput(tmdb_id, title, media_type, genres, vote_average, popularity) ==
    [tmdb_id |-> tmdb_id, title |-> title, media_type |-> media_type,
     genres |-> genres, vote_average |-> vote_average,
     popularity |-> popularity]

(* Variant: the lookup by tmdb_id never finds a row.                       *)
ExistingItemsNone(table, tmdb_id) == {}

(* select().from(mediaItemsTable).where(eq(tmdb_id, ...))                  *)
ExistingItems(table, tmdb_id) ==
    {k \in DOMAIN table : table[k].tmdb_id = tmdb_id}

(* tmdb_id is .unique(): the store refuses a second row with the id.       *)
TmdbIdTaken(table, tmdb_id) ==
    \E k \in DOMAIN table : table[k].tmdb_id = tmdb_id

UniqueTmdbIdError == "duplicate key value violates unique constraint"

MediaRow(id, values, clock) ==
    [id |-> id, tmdb_id |-> values.tmdb_id, title |-> values.title,
     media_type |-> values.media_type, genres |-> values.genres,
     vote_average |-> ToNumeric31(values.vote_average),
     popularity |-> ToNumeric103(values.popularity),
     created_at |-> clock, updated_at |-> clock]

(* update(...).set({...}).where(eq(tmdb_id, ...)): the descriptive fields  *)
(* and updated_at; id, tmdb_id and created_at are not in the set clause.   *)
UpdateMediaItems(table, input, clock) ==
    [k \in DOMAIN table |->
        IF table[k].tmdb_id = input.tmdb_id
        THEN [table[k] EXCEPT !.title = input.title,
                              !.media_type = input.media_type,
                              !.genres = input.genres,
                              !.vote_average = ToNumeric31(input.vote_average),
                              !.popularity = ToNumeric103(input.popularity),
                              !.updated_at = clock]
        ELSE table[k]]

CreateMediaItemUpdates(input) ==
    /\ ExistingItems(media, input.tmdb_id) # {}
    /\ media' = UpdateMediaItems(media, input, now + 1)
    /\ \E k \in ExistingItems(media', input.tmdb_id) :
          history' = Append(history,
                            Returned("createMediaItem", input, <<media'[k]>>))
    /\ now' = now + 1
    /\ UNCHANGED <<users, user_profiles_id_seq, interactions, recs, watchlist,
                   watchlist_id_seq, calls>>

CreateMediaItemInserts(input) ==
    /\ ExistingItems(media, input.tmdb_id) = {}
    /\ IF TmdbIdTaken(media, input.tmdb_id)
       THEN /\ history' = Append(history,
                   Threw("createMediaItem", input, UniqueTmdbIdError))
            /\ UNCHANGED <<media, now>>
       ELSE LET row == MediaRow(Len(media) + 1, input, now + 1)
            IN  /\ media' = Append(media, row)
                /\ history' = Append(history,
                       Returned("createMediaItem", input, <<row>>))
                /\ now' = now + 1
    /\ UNCHANGED <<users, user_profiles_id_seq, interactions, recs, watchlist,
                   watchlist_id_seq, calls>>

CreateMediaItem(input) ==
    CreateMediaItemUpdates(input) \/ CreateMediaItemInserts(input)

(* -- searchMedia ---------------------------------------------------------- *)
SearchInput(query, media_type, page) ==
    [query |-> query, media_type |-> media_type, page |-> page]

PageSize == 20

Lower(c) == IF c = "A" THEN "a" ELSE IF c = "B" THEN "b" ELSE c

(* ilike(title, `%${searchQuery}%`) for a query without wildcards.         *)
Ilike(title, query) ==
    \E i \in 0..(Len(title) - Len(query)) :
        \A j \in 1..Len(query) : Lower(title[i + j]) = Lower(query[j])

(* Every order of the elements of a set.                                   *)
Orderings(S) ==
    {f \in [1..Cardinality(S) -> S] :
        \A i, j \in 1..Cardinality(S) : i # j => f[i] # f[j]}

(* searchInDatabase: the matching rows, `limit` of them after `offset`, in *)
(* whatever order the store returns rows without an ORDER BY.              *)
SearchInDatabase(table, query, media_type, page) ==
    LET matching == {k \in DOMAIN table :
                        /\ Ilike(table[k].title, query)
                        /\ media_type # "all" => table[k].media_type = media_type}
        offset == (page - 1) * PageSize
    IN {[i \in 1..Max(0, Min(PageSize, Cardinality(matching) - offset)) |->
            table[order[offset + i]]] : order \in Orderings(matching)}

(* An item of a catalog response.                                          *)
TmdbItem(id, title, name, media_type, overview, genre_ids, vote, pop) ==
    [id |-> id, title |-> title, name |-> name, media_type |-> media_type,
     overview |-> overview, genre_ids |-> genre_ids, vote_average |-> vote,
     popularity |-> pop]

(* data.results.filter(...): no persons, a title or a name, an overview.   *)
TmdbFilter(item) ==
    /\ item.media_type # "person"
    /\ item.title # <<>> \/ item.name # <<>>
    /\ item.overview # ""

GenreName(id) ==
    IF id = 28 THEN "Action" ELSE IF id = 35 THEN "Comedy" ELSE "Unknown"

UnknownTitle == <<"U", "n", "k", "n", "o", "w", "n">>

(* mediaItemsToInsert: the values built from one catalog item.             *)
MediaItemToInsert(item) ==
    MediaInput(item.id,
               IF item.title # <<>> THEN item.title
               ELSE IF item.name # <<>> THEN item.name ELSE UnknownTitle,
               IF item.media_type # UndefinedStr THEN item.media_type
               ELSE IF item.title # <<>> THEN "movie" ELSE "tv",
               [i \in 1..Len(item.genre_ids) |-> GenreName(item.genre_ids[i])],
               item.vote_average, item.popularity)

(* storeMediaItems: item after item, look the tmdb_id up, push the stored  *)
(* row or insert; an insert the store refuses is logged and skipped.       *)
RECURSIVE StoreMediaItems(_, _, _, _)
StoreMediaItems(table, items, clock, results) ==
    IF items = <<>> THEN [table |-> table, clock |-> clock, results |-> results]
    ELSE LET item == MediaItemToInsert(Head(items))
             existing == ExistingItems(table, item.tmdb_id)
         IN IF existing # {}
            THEN StoreMediaItems(table, Tail(items), clock,
                     Append(results, table[CHOOSE k \in existing : TRUE]))
            ELSE IF TmdbIdTaken(table, item.tmdb_id)
                 THEN StoreMediaItems(table, Tail(items), clock, results)
                 ELSE LET row == MediaRow(Len(table) + 1, item, clock + 1)
                      IN StoreMediaItems(Append(table, row), Tail(items),
                                         clock + 1, Append(results, row))

ApiKeyError == "TMDB_API_KEY environment variable is required"
ApiStatusError == "TMDB API error: ${response.status} ${response.statusText}"

SearchReturnsStored(input) ==
    /\ \E results \in SearchInDatabase(media, input.query, input.media_type,
                                       input.page) :
          /\ results # <<>>
          /\ history' = Append(history, Returned("searchMedia", input, results))
    /\ UNCHANGED <<users, user_profiles_id_seq, media, interactions, recs,
                   watchlist, watchlist_id_seq, now, calls>>

SearchFails(input, error) ==
    /\ SearchInDatabase(media, input.query, input.media_type, input.page)
          = {<<>>}
    /\ history' = Append(history, Threw("searchMedia", input, error))
    /\ UNCHANGED <<users, user_profiles_id_seq, media, interactions, recs,
                   watchlist, watchlist_id_seq, now, calls>>

SearchStoresResults(input, response) ==
    /\ SearchInDatabase(media, input.query, input.media_type, input.page)
          = {<<>>}
    /\ LET stored == StoreMediaItems(media, SelectSeq(response, TmdbFilter),
                                     now, <<>>)
       IN  /\ media' = stored.table
           /\ now' = stored.clock
           /\ history' = Append(history,
                                Returned("searchMedia", input, stored.results))
    /\ UNCHANGED <<users, user_profiles_id_seq, interactions, recs, watchlist,
                   watchlist_id_seq, calls>>

(* -- SpecMedia: ingestion calls, one after another, on an empty catalog -- *)
MaxMediaCalls == 3

TitleAb == <<"A", "b">>
TitleBa == <<"b", "a">>

MediaInputs ==
    {MediaInput(101, TitleAb, "movie", <<"Action">>, 725, 500004),
     MediaInput(101, TitleBa, "tv", <<"Comedy">>, 800, 500005),
     MediaInput(201, TitleAb, "movie", <<"Action">>, 694, 10000)}

SearchInputs ==
    {SearchInput(<<"a">>, "all", 1), SearchInput(<<"a", "b">>, "tv", 1),
     SearchInput(<<"b">>, "all", 2)}

TmdbMovie == TmdbItem(201, TitleAb, <<>>, "movie", "text", <<28, 7>>, 725, 10000)
TmdbShow == TmdbItem(202, <<>>, TitleBa, UndefinedStr, "text", <<35>>, 800, 20000)
TmdbShowAgain == TmdbItem(202, <<>>, TitleAb, "tv", "text", <<>>, 810, 20000)
TmdbPerson == TmdbItem(203, <<>>, TitleAb, "person", "text", <<>>, 0, 10000)
TmdbBlank == TmdbItem(204, TitleBa, <<>>, "movie", "", <<>>, 500, 10000)
TmdbKnown == TmdbItem(101, TitleBa, <<>>, "movie", "text", <<28>>, 900, 10000)

TmdbResponses ==
    {<<>>, <<TmdbMovie, TmdbShow>>, <<TmdbShow, TmdbShowAgain>>,
     <<TmdbPerson, TmdbBlank, TmdbKnown>>}

InitMedia ==
    /\ users = Profiles
    /\ user_profiles_id_seq = Len(Profiles)
    /\ media = <<>>
    /\ interactions = <<>>
    /\ recs = <<>>
    /\ watchlist = <<>>
    /\ watchlist_id_seq = 0
    /\ now = 0
    /\ calls = <<>>
    /\ history = <<>>

NextMedia ==
    \/ \E input \in MediaInputs :
          Len(history) < MaxMediaCalls /\ CreateMediaItemUpdates(input)
    \/ \E input \in MediaInputs :
          Len(history) < MaxMediaCalls /\ CreateMediaItemInserts(input)
    \/ \E input \in SearchInputs :
          Len(history) < MaxMediaCalls /\ SearchReturnsStored(input)
    \/ \E input \in SearchInputs : \E error \in {ApiKeyError, ApiStatusError} :
          Len(history) < MaxMediaCalls /\ SearchFails(input, error)
    \/ \E input \in SearchInputs : \E response \in TmdbResponses :
          Len(history) < MaxMediaCalls /\ SearchStoresResults(input, response)

SpecMedia == InitMedia /\ [][NextMedia]_vars

CreateMediaItemStep ==
    /\ Len(history') = Len(history) + 1
    /\ Completed.op = "createMediaItem"

(* C23: in every reachable state the media table holds at most one row per *)
(* tmdb_id, across any sequence of createMediaItem and searchMedia calls;  *)
(* createMediaItem for a tmdb_id that already exists updates the           *)
(* descriptive fields of the existing row and returns it with the same id  *)
(* and created_at instead of inserting a second row.                       *)
OneRowPerTmdbId ==
    /\ [](\A i, j \in DOMAIN media :
             i # j => media[i].tmdb_id # media[j].tmdb_id)
    /\ [][CreateMediaItemStep =>
            \A k \in DOMAIN media :
               media[k].tmdb_id = Completed.input.tmdb_id =>
                  /\ Completed.ok
                  /\ Len(media') = Len(media)
                  /\ \A j \in DOMAIN media : j # k => media'[j] = media[j]
                  /\ Completed.rows = <<media'[k]>>
                  /\ media'[k].id = media[k].id
                  /\ media'[k].created_at = media[k].created_at
                  /\ media'[k].title = Completed.input.title
                  /\ media'[k].media_type = Completed.input.media_type
                  /\ media'[k].genres = Completed.input.genres
                  /\ media'[k].vote_average * 10 - Completed.input.vote_average
                        \in -5..5
                  /\ media'[k].popularity * 10 - Completed.input.popularity
                        \in -5..5]_vars

(* createMediaItem changed the title of a row that a search had stored.    *)
UpdatedSearchedItem ==
    /\ Len(history) >= 2
    /\ history[Len(history)].op = "createMediaItem"
    /\ history[Len(history)].ok
    /\ LET row == history[Len(history)].rows[1]
       IN  /\ row.updated_at > row.created_at
           /\ row \in Range(media)
           /\ \E i \in 1..(Len(history) - 1) :
                 /\ history[i].op = "searchMedia"
                 /\ history[i].ok
                 /\ \E j \in DOMAIN history[i].rows :
                       /\ history[i].rows[j].id = row.id
                       /\ history[i].rows[j].created_at = row.created_at
                       /\ history[i].rows[j].updated_at = row.created_at

(* -- SpecPool: one generateRecommendations call on catalogs with more     *)
(*    eligible items than the candidate query keeps ------------------------ *)
MaxPoolRows == 1

PoolCatalogs == Catalogs \cup {CatalogWindow, CatalogRounding}

PoolLogs(med) ==
    {InteractionLog(types) :
        types \in UNION {[pairs -> InteractionTypes] :
                            pairs \in {ps \in SUBSET LogPairs(med) :
                                          Cardinality(ps) <= MaxPoolRows}}}

InitPool ==
    /\ users = Profiles
    /\ user_profiles_id_seq = Len(Profiles)
    /\ media \in PoolCatalogs
    /\ interactions \in PoolLogs(media)
    /\ recs = <<>>
    /\ now = Len(interactions)
    /\ watchlist = <<>>
    /\ watchlist_id_seq = 0
    /\ calls = <<>>
    /\ history = <<>>

NextPool ==
    \/ \E input \in GenInputs : history = <<>> /\ GenerateRejects(input)
    \/ \E input \in GenInputs : history = <<>> /\ GenerateInserts(input)

SpecPool == InitPool /\ [][NextPool]_vars

(* The reference computation of the selection, on the rule's scores.       *)
RanksAbove(a, b) ==
    \/ a.vote_average > b.vote_average
    \/ a.vote_average = b.vote_average /\ a.popularity > b.popularity

(* The eligible items by rating descending, then popularity descending.    *)
PoolOrders(input) ==
    {p \in Orderings(Eligible(input)) :
        \A i, j \in DOMAIN p : i < j => ~RanksAbove(media[p[j]], media[p[i]])}

(* The stable sort of a sequence of items by descending score.             *)
StableByScore(w, Score(_)) ==
    LET f == CHOOSE f \in Orderings(DOMAIN w) :
                 \A i, j \in DOMAIN w : i < j =>
                    \/ Score(w[f[i]]) > Score(w[f[j]])
                    \/ Score(w[f[i]]) = Score(w[f[j]]) /\ f[i] < f[j]
    IN [i \in DOMAIN w |-> w[f[i]]]

ReferenceSelections(input, Score(_)) ==
    {LET window == SubSeq(p, 1, Min(Len(p), 3 * input.limit))
         sorted == StableByScore(window, Score)
     IN SubSeq(sorted, 1, Min(Len(sorted), input.limit)) :
        p \in PoolOrders(input)}

ReturnedItems(g) ==
    [k \in DOMAIN history[g].rows |-> history[g].rows[k].media_item_id]

(* C24 as stated: the items generateRecommendations selects, in the order  *)
(* returned, are those of the reference computation: the eligible items by *)
(* rating then popularity descending, the first 3 x limit of them, sorted  *)
(* stably by score descending, the first limit of those.                   *)
SelectionIsReference ==
    \A g \in GenerateCalls :
        ReturnedItems(g) \in
            ReferenceSelections(history[g].input,
                LAMBDA i : RuleScore(media[i], history[g].input))

(* The score as the handler holds it in memory when it sorts.              *)
ComputedScore(item, input) ==
    CandidateScore(item,
                   UNION {Range(l.genres) : l \in ActorLiked(input)},
                   {l.media_type : l \in ActorLiked(input)})

(* The same reference computation on the scores as computed in double      *)
(* arithmetic.                                                             *)
SelectionIsReferenceOnComputedScores ==
    \A g \in GenerateCalls :
        ReturnedItems(g) \in
            ReferenceSelections(history[g].input,
                LAMBDA i : ComputedScore(media[i], history[g].input))

(* An eligible item that scores higher than the item returned was left out *)
(* because it is not among the first 3 x limit by rating and popularity.   *)
LeftOutsideTheWindow ==
    \E g \in GenerateCalls :
        /\ history[g].rows # <<>>
        /\ \E i \in Eligible(history[g].input) :
              /\ \A k \in DOMAIN history[g].rows :
                    /\ history[g].rows[k].media_item_id # i
                    /\ RuleScore(media[i], history[g].input) * 100
                          > history[g].rows[k].score
              /\ Cardinality({j \in Eligible(history[g].input) :
                                 RanksAbove(media[j], media[i])})
                    >= 3 * history[g].input.limit

LikedKinds(input) == {l.media_type : l \in ActorLiked(input)}

(* The catalog items the actor has no interaction with.                    *)
NotExcluded(input) ==
    {i \in DOMAIN media :
        media[i].id \notin {r.media_item_id : r \in ActorInteractions(input)}}

(* The selections the handler's ranking allows from a pool of items.       *)
SelectionsFrom(pool, input) ==
    {LET window == SubSeq(p, 1, Min(Len(p), 3 * input.limit))
         sorted == StableByScore(window,
                       LAMBDA i : ComputedScore(media[i], input))
     IN SubSeq(sorted, 1, Min(Len(sorted), input.limit)) :
        p \in {q \in Orderings(pool) :
                  \A i, j \in DOMAIN q :
                     i < j => ~RanksAbove(media[q[j]], media[q[i]])}}

(* C25: generateRecommendations restricts the candidate pool to one media  *)
(* kind exactly when the liked-kind set has exactly one member, and then   *)
(* every created row's item has that kind; when the actor has liked both   *)
(* kinds, has liked nothing, or has no interactions at all, no kind filter *)
(* is applied and the items of both kinds are eligible.                    *)
KindFilterOnlyForOneLikedKind ==
    \A g \in GenerateCalls :
        LET input == history[g].input
        IN IF Cardinality(LikedKinds(input)) = 1
           THEN /\ \A k \in DOMAIN history[g].rows :
                      media[history[g].rows[k].media_item_id].media_type
                         \in LikedKinds(input)
                /\ ReturnedItems(g) \in
                      SelectionsFrom({i \in NotExcluded(input) :
                          media[i].media_type \in LikedKinds(input)}, input)
           ELSE ReturnedItems(g) \in SelectionsFrom(NotExcluded(input), input)

(* An actor who liked one kind got fewer rows than asked for although      *)
(* items of the other kind were not excluded.                              *)
OtherKindFilteredOut ==
    \E g \in GenerateCalls :
        /\ Cardinality(LikedKinds(history[g].input)) = 1
        /\ history[g].rows # <<>>
        /\ Len(history[g].rows) < history[g].input.limit
        /\ \E i \in NotExcluded(history[g].input) :
              media[i].media_type \notin LikedKinds(history[g].input)

(* An actor who liked both kinds got rows of both kinds.                   *)
BothKindsLikedBothReturned ==
    \E g \in GenerateCalls :
        /\ Cardinality(LikedKinds(history[g].input)) = 2
        /\ {media[history[g].rows[k].media_item_id].media_type :
               k \in DOMAIN history[g].rows} = MediaTypes

(* An actor with interactions but no like got rows of both kinds.          *)
NothingLikedBothReturned ==
    \E g \in GenerateCalls :
        /\ ActorInteractions(history[g].input) # {}
        /\ LikedKinds(history[g].input) = {}
        /\ {media[history[g].rows[k].media_item_id].media_type :
               k \in DOMAIN history[g].rows} = MediaTypes

HasToken(reason, token) == \E i \in DOMAIN reason : reason[i] = token

LikedGenreSet(input) == UNION {Range(l.genres) : l \in ActorLiked(input)}

(* The actor has interactions and none of them is a like or watched_liked. *)
OnlyOtherKinds(input) ==
    /\ ActorInteractions(input) # {}
    /\ \A r \in ActorInteractions(input) :
          r.interaction_type \in {"dislike", "watched_disliked",
                                  "add_to_watchlist", "remove_from_watchlist"}

(* C26: only interactions of kind like or watched_liked contribute to the  *)
(* liked genre set and the liked-kind set.  A row carries the genre        *)
(* component exactly when its item shares a genre with an item so liked,   *)
(* and the kind component exactly when its kind is that of an item so      *)
(* liked.  An actor whose interactions are all of the other kinds gets     *)
(* empty sets: no row has a genre or a kind bonus, no kind filter is       *)
(* applied, and the interacted items are still excluded.                   *)
OnlyLikesGiveAffinity ==
    \A g \in GenerateCalls :
        LET input == history[g].input
        IN /\ \A k \in DOMAIN history[g].rows :
                 LET row == history[g].rows[k]
                     item == media[row.media_item_id]
                 IN /\ HasToken(row.reason, "genres you enjoy:")
                          <=> Range(item.genres) \cap LikedGenreSet(input) # {}
                    /\ HasToken(row.reason, "you like")
                          <=> item.media_type \in LikedKinds(input)
           /\ OnlyOtherKinds(input) =>
                 /\ \A k \in DOMAIN history[g].rows :
                       LET row == history[g].rows[k]
                           item == media[row.media_item_id]
                       IN /\ row.score =
                                100 * (30 + (IF item.vote_average >= 80 THEN 20
                                             ELSE IF item.vote_average >= 70
                                                  THEN 10 ELSE 0)
                                          + (IF item.popularity > 50000
                                             THEN 5 ELSE 0))
                          /\ row.media_item_id \in NotExcluded(input)
                 /\ ReturnedItems(g) \in SelectionsFrom(NotExcluded(input), input)

(* An actor without a like, with a watchlist addition, got a row for an    *)
(* item of the kind of the item on the watchlist that shares a genre with  *)
(* it.                                                                     *)
WatchlistGaveNoAffinity ==
    \E g \in GenerateCalls :
        /\ OnlyOtherKinds(history[g].input)
        /\ \E r \in ActorInteractions(history[g].input) :
              /\ r.interaction_type = "add_to_watchlist"
              /\ \E k \in DOMAIN history[g].rows :
                    LET item == media[history[g].rows[k].media_item_id]
                    IN /\ Range(item.genres)
                             \cap Range(media[r.media_item_id].genres) # {}
                       /\ item.media_type = media[r.media_item_id].media_type

(* The actor has an interaction row for the item of a recommendation row.  *)
HasInteracted(input, row) ==
    \E r \in ActorInteractions(input) : r.media_item_id = row.media_item_id

(* C27 as stated: getNextRecommendation never returns a recommendation for *)
(* a media item on which the same actor has an interaction row at the time *)
(* of the call.                                                            *)
NextSkipsInteractedItems ==
    [][GetNextStep =>
         \A k \in DOMAIN Completed.rows :
            ~HasInteracted(Completed.input, Completed.rows[k])]_vars

(* C27 as the handler behaves: getNextRecommendation does not read the     *)
(* interactions.  It returns an unshown row of the actor with the highest  *)
(* score whether or not the actor has an interaction row for its item, and *)
(* returns null only when the actor has no unshown row.                    *)
NextIgnoresInteractions ==
    [][GetNextStep =>
         LET unshown == ActorUnshown(Completed.input)
         IN /\ unshown = {} <=> Completed.rows = <<>>
            /\ \A k \in DOMAIN Completed.rows :
                  /\ Completed.rows[k].id \in {recs[j].id : j \in unshown}
                  /\ \A j \in unshown :
                        recs[j].score <= Completed.rows[k].score]_vars

(* A row was dispensed to a session that had disliked its item after the   *)
(* row was generated.                                                      *)
DispensedDislikedItem ==
    /\ Len(history) >= 3
    /\ history[Len(history)].op = "getNextRecommendation"
    /\ history[Len(history)].rows # <<>>
    /\ \E r \in ActorInteractions(history[Len(history)].input) :
          /\ r.media_item_id = history[Len(history)].rows[1].media_item_id
          /\ r.interaction_type = "dislike"
          /\ r.created_at > history[Len(history)].rows[1].created_at

(***************************************************************************)
(* addToWatchlist, statement by statement                                  *)
(***************************************************************************)
AddBegins(input) ==
    /\ calls' = Append(calls, Call("addToWatchlist", input, "select", <<>>))
    /\ UNCHANGED <<users, user_profiles_id_seq, media, interactions, recs,
                   watchlist, watchlist_id_seq, now, history>>

(* The lookup finds a row: the call returns it.                            *)
AddFindsRow(i) ==
    /\ calls[i].op = "addToWatchlist" /\ calls[i].pc = "select"
    /\ \E k \in ExistingEntry(watchlist, calls[i].input) :
          history' = Append(history,
              Returned("addToWatchlist", calls[i].input, <<watchlist[k]>>))
    /\ calls' = Without(calls, i)
    /\ UNCHANGED <<users, user_profiles_id_seq, media, interactions, recs,
                   watchlist, watchlist_id_seq, now>>

(* The lookup finds nothing: the call goes on to the insert.               *)
AddFindsNone(i) ==
    /\ calls[i].op = "addToWatchlist" /\ calls[i].pc = "select"
    /\ ExistingEntry(watchlist, calls[i].input) = {}
    /\ calls' = Replaced(calls, i, [calls[i] EXCEPT !.pc = "insert"])
    /\ UNCHANGED <<users, user_profiles_id_seq, media, interactions, recs,
                   watchlist, watchlist_id_seq, now, history>>

AddWritesInsert(i) ==
    /\ calls[i].op = "addToWatchlist" /\ calls[i].pc = "insert"
    /\ LET row == WatchlistRow(watchlist_id_seq + 1, calls[i].input, now + 1)
       IN  /\ watchlist' = Append(watchlist, row)
           /\ history' = Append(history,
                  Returned("addToWatchlist", calls[i].input, <<row>>))
    /\ watchlist_id_seq' = watchlist_id_seq + 1
    /\ now' = now + 1
    /\ calls' = Without(calls, i)
    /\ UNCHANGED <<users, user_profiles_id_seq, media, interactions, recs>>

(* -- SpecWatchlistConc: addToWatchlist calls that interleave ------------- *)
MaxConcurrentAdds == 2

ConcurrentWatchlistInputs ==
    {WatchlistInput(a[1], a[2], m) :
        a \in {<<1, V>>, <<U, "s1">>, <<2, V>>}, m \in {1, 2}}

NextWatchlistConc ==
    \/ \E input \in ConcurrentWatchlistInputs :
          /\ Len(history) + Len(calls) < MaxConcurrentAdds
          /\ AddBegins(input)
    \/ \E i \in DOMAIN calls : AddFindsRow(i)
    \/ \E i \in DOMAIN calls : AddFindsNone(i)
    \/ \E i \in DOMAIN calls : AddWritesInsert(i)

SpecWatchlistConc == Init /\ [][NextWatchlistConc]_vars

(* C28 as stated: in every reachable state, including when addToWatchlist  *)
(* calls for the same actor and media item interleave, the watchlist holds *)
(* at most one row per (actor, media item) pair.                           *)
NoTwoWatchlistRowsForOnePair ==
    \A i, j \in DOMAIN watchlist :
        (/\ i # j
         /\ watchlist[i].media_item_id = watchlist[j].media_item_id)
        => \/ watchlist[i].user_id # watchlist[j].user_id
           \/ watchlist[i].session_id # watchlist[j].session_id

(***************************************************************************)
(* Isolation of the interaction rows of distinct actors (SpecInteractAny). *)
(***************************************************************************)
InteractionStep ==
    /\ Len(history') = Len(history) + 1
    /\ Completed.op = "createUserInteraction"

(* The stored rows a createUserInteraction step changes.                   *)
ChangedInteractions ==
    {k \in DOMAIN interactions : interactions'[k] # interactions[k]}

SessionOnly(input) ==
    input.user_id = UndefinedId /\ input.session_id # UndefinedStr

(* No session has two rows for one media item.                             *)
OneRowPerSessionAndItem ==
    \A i, j \in DOMAIN interactions :
        (/\ interactions[i].session_id # NullStr
         /\ interactions[i].session_id = interactions[j].session_id
         /\ interactions[i].media_item_id = interactions[j].media_item_id)
        => i = j

(* A session-only call changes no row whose user_id is set, and a call     *)
(* with a user_id changes no row of another user.                          *)
StepKeepsOtherActorsRows ==
    InteractionStep =>
        \A k \in ChangedInteractions :
            /\ SessionOnly(Completed.input) => interactions[k].user_id = NullId
            /\ Completed.input.user_id # UndefinedId
                  => interactions[k].user_id \in {NullId, Completed.input.user_id}

(* C29: under createUserInteraction, whatever input the schema accepts     *)
(* (user_id only, session_id only, or both), a call that supplies only a   *)
(* session_id never changes a row whose user_id is set, a call that        *)
(* supplies a user_id never changes a row of another user, and after any   *)
(* sequence of calls each session has at most one row per media item.      *)
InteractionRowsAreIsolated ==
    /\ [][StepKeepsOtherActorsRows]_vars
    /\ []OneRowPerSessionAndItem

(* The same when no call supplies both identifiers.                        *)
InteractionRowsAreIsolatedForSingleIds ==
    /\ [][(\A i \in DOMAIN history' : ~BothSupplied(history'[i].input))
             => StepKeepsOtherActorsRows]_vars
    /\ []((\A i \in DOMAIN history : ~BothSupplied(history[i].input))
             => OneRowPerSessionAndItem)

(* The step half of C29 on its own.                                        *)
SessionCallsKeepUserRows == [][StepKeepsOtherActorsRows]_vars

(* A session-only call has just changed the type of a row of user 1.       *)
SessionCallChangedUserRow ==
    /\ Len(history) >= 2
    /\ history[Len(history)].ok
    /\ SessionOnly(history[Len(history)].input)
    /\ history[Len(history)].rows[1].user_id # NullId
    /\ \E i \in 1..(Len(history) - 1) :
          /\ history[i].ok
          /\ history[i].rows[1].id = history[Len(history)].rows[1].id
          /\ history[i].rows[1].interaction_type
                # history[Len(history)].rows[1].interaction_type

(***************************************************************************)
(* The kind bonus of an actor with a like (SpecGen).                       *)
(***************************************************************************)
(* The scoring rule in hundredths with the kind bonus always added.        *)
RuleScoreWithKindBonus(item, input) ==
    LET sum == 30 + 20 * Cardinality(Range(item.genres) \cap LikedGenreSet(input))
                  + (IF item.vote_average >= 80 THEN 20
                     ELSE IF item.vote_average >= 70 THEN 10 ELSE 0)
                  + 10
                  + (IF item.popularity > 50000 THEN 5 ELSE 0)
    IN IF sum > 100 THEN 100 ELSE sum

(* What C30 says of the rows one call created for an input.                *)
RowsCarryKindBonus(input, rows) ==
    \A k \in DOMAIN rows :
        LET row == rows[k]
            item == media[row.media_item_id]
        IN /\ row.reason[1] # "Because you liked"
           /\ ActorLiked(input) # {} =>
                 /\ item.media_type \in LikedKinds(input)
                 /\ row.score = 100 * RuleScoreWithKindBonus(item, input)
                 /\ row.reason[1] = "Because of"
                 /\ \E i \in DOMAIN row.reason :
                       /\ i + 2 <= Len(row.reason)
                       /\ row.reason[i] = "you like"
                       /\ row.reason[i + 1] = item.media_type
                       /\ row.reason[i + 2] = "s"

(* C30: for an actor with at least one like or watched_liked interaction,  *)
(* every candidate generateRecommendations scores has its kind in the      *)
(* liked-kind set, so every created row carries the +0.1 kind bonus and a  *)
(* reason with the "you like <kind>s" component; the fallback reason       *)
(* 'Because you liked "<title>"' is never produced.                        *)
LikeGivesEveryRowTheKindBonus ==
    \A g \in GenerateCalls :
        RowsCarryKindBonus(history[g].input, history[g].rows)

(* The same of every generateRecommendations step, with the interactions   *)
(* the call read, when other calls come before and after it.               *)
LikeGivesEveryRowTheKindBonusAtTheCall ==
    [][GenerateStep => RowsCarryKindBonus(Completed.input, Completed.rows)]_vars

(* An actor with a like got a row for an item that shares no genre with    *)
(* the liked items and is rated below 7.0: its only reason is the kind.    *)
KindIsTheOnlyReason ==
    \E g \in GenerateCalls : \E k \in DOMAIN history[g].rows :
        LET input == history[g].input
            row == history[g].rows[k]
            item == media[row.media_item_id]
        IN /\ ActorLiked(input) # {}
           /\ Range(item.genres) \cap LikedGenreSet(input) = {}
           /\ item.vote_average < 70
           /\ row.reason = <<"Because of", "you like", item.media_type, "s">>
           /\ row.score \in {4000, 4500}

(***************************************************************************)
(* Duplicates of a media item among the recommendation rows (SpecDrain).   *)
(***************************************************************************)
(* The ids of the rows a generateRecommendations call created.             *)
BatchIds(g) == {history[g].rows[k].id : k \in DOMAIN history[g].rows}

SameStoredActor(a, b) ==
    a.user_id = b.user_id /\ a.session_id = b.session_id

(* C31: within one generateRecommendations call no two created rows        *)
(* reference the same media item; two recommendation rows of one actor     *)
(* reference the same media item only when different calls created them.   *)
NoItemTwiceInOneBatch ==
    /\ \A g \in GenerateCalls : \A i, j \in DOMAIN history[g].rows :
          i # j => history[g].rows[i].media_item_id
                      # history[g].rows[j].media_item_id
    /\ \A a, b \in DOMAIN recs :
          (/\ a # b
           /\ SameStoredActor(recs[a], recs[b])
           /\ recs[a].media_item_id = recs[b].media_item_id)
          => \A g \in GenerateCalls :
                ~(recs[a].id \in BatchIds(g) /\ recs[b].id \in BatchIds(g))

(* Two calls for one actor each created two rows, and the second call's    *)
(* rows reference the items of the first call's rows again.                *)
SameItemsInTwoBatches ==
    \E g, h \in GenerateCalls :
        /\ g < h
        /\ Len(history[g].rows) = 2
        /\ Len(history[h].rows) = 2
        /\ SameStoredActor(history[g].rows[1], history[h].rows[1])
        /\ {history[g].rows[k].media_item_id : k \in 1..2}
              = {history[h].rows[k].media_item_id : k \in 1..2}

(***************************************************************************)
(* What an update by createUserInteraction changes (SpecInteractAny).      *)
(***************************************************************************)
(* The step found a row for the pair of its input.                         *)
FoundExistingInteraction ==
    /\ InteractionStep
    /\ Completed.ok
    /\ ExistingInteraction(interactions, Completed.input) # {}

(* C32: when createUserInteraction finds an existing row for the (actor,   *)
(* media item) pair, it changes only that row's interaction_type and       *)
(* updated_at: the row's id, created_at, user_id, session_id and           *)
(* media_item_id are preserved, and no other interaction row is changed.   *)
UpdateChangesTypeAndTimeOnly ==
    [][FoundExistingInteraction =>
          /\ Len(interactions') = Len(interactions)
          /\ \E k \in DOMAIN interactions :
                /\ MatchesInteraction(interactions[k], Completed.input)
                /\ interactions' =
                      [interactions EXCEPT
                          ![k].interaction_type = Completed.input.interaction_type,
                          ![k].updated_at = interactions'[k].updated_at]
                /\ interactions'[k].updated_at > interactions[k].updated_at
                /\ Completed.rows = <<interactions'[k]>>]_vars

(* A row was updated to another type while the table held a second row for *)
(* the same media item, which kept its type and its times.                 *)
UpdatedBesideRowOfSameItem ==
    \E i, j \in DOMAIN history : \E k \in DOMAIN interactions :
        /\ i < j
        /\ history[i].ok /\ history[j].ok
        /\ history[j].rows[1].id = history[i].rows[1].id
        /\ history[j].rows[1].created_at = history[i].rows[1].created_at
        /\ history[j].rows[1].interaction_type # history[i].rows[1].interaction_type
        /\ interactions[k].id # history[j].rows[1].id
        /\ interactions[k].media_item_id = history[j].rows[1].media_item_id
        /\ interactions[k].updated_at = interactions[k].created_at
        /\ interactions[k].interaction_type # history[j].rows[1].interaction_type

(***************************************************************************)
(* getWatchlist, and reading the watchlist back after addToWatchlist       *)
(* (SpecWatchlistRead).                                                    *)
(***************************************************************************)
(* Variant: the user when supplied, else the session, as the delete does.  *)
GetConditionsUserFirst(row, input) ==
    IF input.user_id # UndefinedId THEN row.user_id = input.user_id
    ELSE row.session_id = input.session_id

(* getWatchlist: one condition per identifier that is not undefined,       *)
(* joined with AND.                                                        *)
GetConditions(row, input) ==
    /\ input.user_id # UndefinedId => row.user_id = input.user_id
    /\ input.session_id # UndefinedStr => row.session_id = input.session_id

(* One element of the result: the watchlist row with its media item.  The  *)
(* numeric columns of the item are read back with parseFloat, which gives  *)
(* the stored decimal.                                                     *)
WatchlistWithMedia(row, item) ==
    [id |-> row.id,
     user_id |-> row.user_id,
     session_id |-> row.session_id,
     media_item_id |-> row.media_item_id,
     created_at |-> row.created_at,
     media_item |-> item]

(* FROM watchlist INNER JOIN media_items ON media_item_id = media_items.id *)
(* WHERE <conditions> ORDER BY watchlist.created_at DESC: the results the  *)
(* query may return, rows of equal created_at in either order.             *)
WatchlistQuery(table, med, input) ==
    LET matching == {k \in DOMAIN table :
                        /\ GetConditions(table[k], input)
                        /\ MediaExists(med, table[k].media_item_id)}
        Joined(k) == CHOOSE m \in Range(med) : m.id = table[k].media_item_id
    IN {[i \in DOMAIN o |-> WatchlistWithMedia(table[o[i]], Joined(o[i]))] :
           o \in {q \in Orderings(matching) :
                     \A i, j \in DOMAIN q :
                        i < j => table[q[i]].created_at >= table[q[j]].created_at}}

(* Neither identifier: `return []` before any statement.                   *)
GetWatchlistReturnsEmpty(input) ==
    /\ input.user_id = UndefinedId
    /\ input.session_id = UndefinedStr
    /\ history' = Append(history, Returned("getWatchlist", input, <<>>))
    /\ UNCHANGED <<watchlist, watchlist_id_seq, users, user_profiles_id_seq,
                   media, interactions, recs, now, calls>>

GetWatchlistReturnsEntries(input) ==
    /\ input.user_id # UndefinedId \/ input.session_id # UndefinedStr
    /\ \E rows \in WatchlistQuery(watchlist, media, input) :
          history' = Append(history, Returned("getWatchlist", input, rows))
    /\ UNCHANGED <<watchlist, watchlist_id_seq, users, user_profiles_id_seq,
                   media, interactions, recs, now, calls>>

GetWatchlist(input) ==
    GetWatchlistReturnsEmpty(input) \/ GetWatchlistReturnsEntries(input)

(* -- SpecWatchlistRead: addToWatchlist, removeFromWatchlist and           *)
(*    getWatchlist calls, one after another; item 9 is not in the catalog - *)
MaxWatchlistReadCalls == 3

WatchlistReadInputs ==
    {WatchlistInput(a[1], a[2], m) :
        a \in {<<1, V>>, <<U, "s1">>, <<1, "s1">>, <<0, "s1">>, <<U, V>>},
        m \in {1, 9}}

NextWatchlistRead ==
    \/ \E input \in WatchlistReadInputs :
          Len(history) < MaxWatchlistReadCalls /\ AddReturnsExisting(input)
    \/ \E input \in WatchlistReadInputs :
          Len(history) < MaxWatchlistReadCalls /\ AddInserts(input)
    \/ \E input \in WatchlistReadInputs :
          Len(history) < MaxWatchlistReadCalls /\ RemoveRefuses(input)
    \/ \E input \in WatchlistReadInputs :
          Len(history) < MaxWatchlistReadCalls /\ RemoveDeletes(input)
    \/ \E input \in WatchlistReadInputs :
          Len(history) < MaxWatchlistReadCalls /\ GetWatchlistReturnsEmpty(input)
    \/ \E input \in WatchlistReadInputs :
          Len(history) < MaxWatchlistReadCalls /\ GetWatchlistReturnsEntries(input)

SpecWatchlistRead == Init /\ [][NextWatchlistRead]_vars

(* The calls j that are a getWatchlist right after an addToWatchlist with  *)
(* the same input.                                                         *)
ReadsAfterAdd ==
    {j \in 2..Len(history) :
        /\ history[j].op = "getWatchlist"
        /\ history[j - 1].op = "addToWatchlist"
        /\ history[j - 1].ok
        /\ history[j].input = history[j - 1].input}

SessionReadItsAddition ==
    \E j \in ReadsAfterAdd :
        /\ history[j].input.user_id = UndefinedId
        /\ history[j].input.session_id = "s1"
        /\ Len(history[j].rows) = 1
        /\ history[j].rows[1].id = history[j - 1].rows[1].id
        /\ history[j].rows[1].media_item.id = history[j].input.media_item_id

(***************************************************************************)
(* Whose rows addToWatchlist returns and creates (SpecWatchlist).          *)
(***************************************************************************)
AddCalls ==
    {i \in DOMAIN history : history[i].op = "addToWatchlist" /\ history[i].ok}

(* The row carries an identifier the input supplies.                       *)
RowOfCaller(row, input) ==
    \/ input.user_id # UndefinedId /\ row.user_id = input.user_id
    \/ input.session_id # UndefinedStr /\ row.session_id = input.session_id

EveryEntryHasAnOwner ==
    \A k \in DOMAIN watchlist :
        watchlist[k].user_id # NullId \/ watchlist[k].session_id # NullStr

(* C34: addToWatchlist only ever returns or creates a row of the calling   *)
(* actor: for every input the schema accepts, also one with neither        *)
(* user_id nor session_id, the returned row's user_id is the supplied      *)
(* user_id or its session_id is the supplied session_id, and every stored  *)
(* watchlist row has a user_id or a session_id that is not null.           *)
AddReturnsRowsOfTheCaller ==
    /\ \A i \in AddCalls : RowOfCaller(history[i].rows[1], history[i].input)
    /\ EveryEntryHasAnOwner

(* The input carries a user_id other than 0 or a session_id other than the *)
(* empty string.                                                           *)
HasTruthyIdentifier(input) ==
    TruthyId(input.user_id) \/ TruthyStr(input.session_id)

(* The same when every addToWatchlist call carried such an identifier.     *)
AddReturnsRowsOfTheCallerForTruthyIds ==
    /\ \A i \in AddCalls :
          HasTruthyIdentifier(history[i].input)
             => RowOfCaller(history[i].rows[1], history[i].input)
    /\ (\A i \in AddCalls : HasTruthyIdentifier(history[i].input))
          => EveryEntryHasAnOwner

(* A call without any identifier was handed the row of user 1.             *)
AnonymousCallGotUserRow ==
    \E i \in AddCalls :
        /\ history[i].input.user_id = UndefinedId
        /\ history[i].input.session_id = UndefinedStr
        /\ history[i].rows[1].user_id = 1

(***************************************************************************)
(* generateRecommendations, insert by insert, with a store that may refuse *)
(* an insert (SpecGenFail).  Promise.all starts one insert per top         *)
(* candidate; it rejects with the first insert that fails and does not     *)
(* stop the others, which may still reach the table.                       *)
(***************************************************************************)
(* The errors the store may raise for an insert.                           *)
StoreErrors == {"connection terminated", "statement timeout"}

(* The top candidates one call may compute, for every order the candidate  *)
(* query may return and every random draw.                                 *)
TopCandidateChoices(inter, med, input) ==
    LET userInteractions == UserInteractionsQuery(inter, med,
                                   input.user_id, input.session_id)
        likedItems == LikedItems(userInteractions)
        likedGenres == LikedGenres(likedItems)
        likedMediaTypes == LikedMediaTypes(likedItems)
    IN UNION {{TopCandidates(SortByScore(ScoredCandidates(candidates,
                   likedGenres, likedMediaTypes, likedItems, picks)), input.limit) :
                 picks \in PickChoices(candidates, likedGenres,
                               likedMediaTypes, likedItems)} :
              candidates \in CandidateQuery(med,
                  InteractedMediaIds(userInteractions), likedMediaTypes, input.limit)}

(* One insert of the batch: pending, done (with the row it created) or     *)
(* failed (with the error raised).                                         *)
PendingInsert(candidate) ==
    [candidate |-> candidate, state |-> "pending", row |-> <<>>, error |-> ""]

(* The rows the inserts of a call have created so far.                     *)
InsertedSoFar(call) ==
    {call.found[k].row[1] :
        k \in {j \in DOMAIN call.found : call.found[j].state = "done"}}

(* Variant: the rows the batch has inserted are deleted when it fails.     *)
RollBackInsertedRows(table, rows) ==
    SelectSeq(table, LAMBDA r : r.id \notin {q.id : q \in rows})

(* catch (error) { console.error(...); throw error; }: nothing is undone.  *)
KeepInsertedRows(table, rows) == table

GenerateBegins(input) ==
    /\ TruthyId(input.user_id) \/ TruthyStr(input.session_id)
    /\ \E top \in TopCandidateChoices(interactions, media, input) :
          calls' = Append(calls, Call("generateRecommendations", input,
                       "inserting", [k \in DOMAIN top |-> PendingInsert(top[k])]))
    /\ UNCHANGED <<watchlist, watchlist_id_seq, users, user_profiles_id_seq,
                   media, interactions, recs, now, history>>

InsertReaches(i, k) ==
    /\ calls[i].op = "generateRecommendations"
    /\ calls[i].found[k].state = "pending"
    /\ LET row == RecommendationRow(Len(recs) + 1, calls[i].input.user_id,
                      calls[i].input.session_id, calls[i].found[k].candidate,
                      now + 1)
       IN /\ recs' = Append(recs, row)
          /\ calls' = [calls EXCEPT ![i].found[k].state = "done",
                                    ![i].found[k].row = <<row>>]
    /\ now' = now + 1
    /\ UNCHANGED <<watchlist, watchlist_id_seq, users, user_profiles_id_seq,
                   media, interactions, history>>

InsertFails(i, k, error) ==
    /\ calls[i].op = "generateRecommendations"
    /\ calls[i].found[k].state = "pending"
    /\ calls' = [calls EXCEPT ![i].found[k].state = "failed",
                              ![i].found[k].error = error,
                              ![i].pc = IF @ = "inserting" THEN "rejected" ELSE @]
    /\ IF calls[i].pc = "inserting"
       THEN /\ history' = Append(history,
                   Threw("generateRecommendations", calls[i].input, error))
            /\ recs' = KeepInsertedRows(recs, InsertedSoFar(calls[i]))
       ELSE UNCHANGED <<history, recs>>
    /\ UNCHANGED <<watchlist, watchlist_id_seq, users, user_profiles_id_seq,
                   media, interactions, now>>

GenerateReturns(i) ==
    /\ calls[i].op = "generateRecommendations"
    /\ calls[i].pc = "inserting"
    /\ \A k \in DOMAIN calls[i].found : calls[i].found[k].state = "done"
    /\ calls' = [calls EXCEPT ![i].pc = "returned"]
    /\ history' = Append(history, Returned("generateRecommendations",
           calls[i].input, [k \in DOMAIN calls[i].found |-> calls[i].found[k].row[1]]))
    /\ UNCHANGED <<watchlist, watchlist_id_seq, users, user_profiles_id_seq,
                   media, interactions, recs, now>>

(* -- SpecGenFail -------------------------------------------------------- *)
MaxBatches == 1
MaxDispenseCalls == 2

BatchInputs ==
    {RecommendationsInput(1, V, 2), RecommendationsInput(U, "s1", 1)}

DispenseInputs ==
    {RecommendationsInput(1, V, DefaultLimit),
     RecommendationsInput(U, "s1", DefaultLimit)}

DispenseCalls ==
    {h \in DOMAIN history : history[h].op = "getNextRecommendation"}

NextGenFail ==
    \/ \E input \in BatchInputs :
          Len(calls) < MaxBatches /\ GenerateBegins(input)
    \/ \E i \in DOMAIN calls : \E k \in DOMAIN calls[i].found :
          InsertReaches(i, k)
    \/ \E i \in DOMAIN calls : \E k \in DOMAIN calls[i].found :
          \E error \in StoreErrors : InsertFails(i, k, error)
    \/ \E i \in DOMAIN calls : GenerateReturns(i)
    \/ \E input \in DispenseInputs :
          Cardinality(DispenseCalls) < MaxDispenseCalls /\ GetNextReturnsNull(input)
    \/ \E input \in DispenseInputs :
          Cardinality(DispenseCalls) < MaxDispenseCalls /\ GetNextReturnsRow(input)

SpecGenFail == Init /\ [][NextGenFail]_vars

BatchCalls == {i \in DOMAIN calls : calls[i].op = "generateRecommendations"}

DoneInserts(i) ==
    {k \in DOMAIN calls[i].found : calls[i].found[k].state = "done"}

FailedInserts(i) ==
    {k \in DOMAIN calls[i].found : calls[i].found[k].state = "failed"}

(* The inserts of all calls that reached the table.                        *)
AllDoneInserts ==
    UNION {{<<i, k>> : k \in DoneInserts(i)} : i \in BatchCalls}

(* The getNextRecommendation calls that returned a given row.              *)
DispensedBy(row) ==
    {h \in DispenseCalls :
        history[h].rows # <<>> /\ history[h].rows[1].id = row.id}

(* Every row an insert created is in the table as it was created, unshown, *)
(* until a getNextRecommendation call returns it; the table holds no other *)
(* row, so no insert ran twice.                                            *)
InsertedRowsStay ==
    /\ Len(recs) = Cardinality(AllDoneInserts)
    /\ \A i \in BatchCalls : \A k \in DoneInserts(i) :
          LET row == calls[i].found[k].row[1]
          IN /\ row.shown = FALSE
             /\ row.id \in DOMAIN recs
             /\ IF DispensedBy(row) = {}
                THEN recs[row.id] = row
                ELSE recs[row.id] = [row EXCEPT !.shown = TRUE]

(* A call whose insert failed has ended, once, in an error of the store;   *)
(* while one of the rows it inserted is unshown, getNextRecommendation     *)
(* finds a row for the actor.                                              *)
FailedBatchCanBeDispensed ==
    /\ Cardinality({h \in DOMAIN history :
                       history[h].op = "generateRecommendations"})
          = Cardinality({i \in BatchCalls : calls[i].pc # "inserting"})
    /\ \A i \in BatchCalls :
          /\ FailedInserts(i) # {} <=> calls[i].pc = "rejected"
          /\ calls[i].pc = "rejected" =>
                /\ \E h \in DOMAIN history :
                      /\ history[h].op = "generateRecommendations"
                      /\ ~history[h].ok
                      /\ history[h].input = calls[i].input
                      /\ \E k \in FailedInserts(i) :
                            history[h].error = calls[i].found[k].error
                /\ (\E k \in DoneInserts(i) :
                       recs[calls[i].found[k].row[1].id].shown = FALSE)
                   => NextUnshown(recs, media, calls[i].input.user_id,
                                  calls[i].input.session_id) # {}

(* The step in which the first insert of a call fails.                     *)
FirstFailure(i) ==
    /\ i \in DOMAIN calls
    /\ calls[i].pc = "inserting"
    /\ calls'[i].pc = "rejected"

(* C35: if persisting one row of a generateRecommendations batch fails,    *)
(* the call ends in that error without retry, and the rows of the batch    *)
(* whose inserts completed stay persisted as unshown recommendations that  *)
(* later getNextRecommendation calls can dispense.                         *)
FailedBatchKeepsInsertedRows ==
    /\ []InsertedRowsStay
    /\ []FailedBatchCanBeDispensed
    /\ [][\A i \in DOMAIN calls : FirstFailure(i) =>
             /\ Len(history') = Len(history) + 1
             /\ Completed = Threw("generateRecommendations", calls[i].input,
                                  Completed.error)
             /\ \E k \in DOMAIN calls[i].found :
                   /\ calls[i].found[k].state = "pending"
                   /\ calls'[i].found[k].state = "failed"
                   /\ calls'[i].found[k].error = Completed.error
             /\ Completed.error \in StoreErrors
             /\ recs' = recs]_vars

(* A batch of two lost one insert; the call ended in the error, and a      *)
(* later getNextRecommendation call returned the row of the other insert.  *)
DispensedRowOfFailedBatch ==
    \E i \in BatchCalls : \E h, g \in DOMAIN history :
        /\ calls[i].pc = "rejected"
        /\ Cardinality(FailedInserts(i)) = 1
        /\ Cardinality(DoneInserts(i)) = 1
        /\ h < g
        /\ history[h].op = "generateRecommendations"
        /\ ~history[h].ok
        /\ history[h].input = calls[i].input
        /\ history[g].op = "getNextRecommendation"
        /\ history[g].rows # <<>>
        /\ \E k \in DoneInserts(i) :
              /\ history[g].rows[1].id = calls[i].found[k].row[1].id
              /\ recs[history[g].rows[1].id].shown = TRUE

(***************************************************************************)
(* The priority order of the stored reason (SpecGen).                      *)
(***************************************************************************)
(* The genres of an item that the actor's liked items have, in the item's  *)
(* own order.                                                              *)
OverlapInItemOrder(item, input) ==
    SelectSeq(item.genres, LAMBDA g : g \in LikedGenreSet(input))

ComponentHeads == {"genres you enjoy:", "highly rated", "well-rated", "you like"}

(* What follows the genre component: nothing, or rating and kind           *)
(* components, each after an "and".                                        *)
IsRatingAndKindTail(rest) ==
    /\ rest # <<>> => rest[1] = "and"
    /\ \A i \in DOMAIN rest :
          /\ rest[i] = "and" =>
                i < Len(rest) /\ rest[i + 1] \in {"highly rated", "well-rated", "you like"}
          /\ rest[i] # "genres you enjoy:"
          /\ (rest[i] \in ComponentHeads => rest[i - 1] = "and")

(* C36: the stored reason follows the priority order.  When a genre of the *)
(* candidate is in the liked genre set the reason is "Because of genres    *)
(* you enjoy:" followed by exactly the overlapping genres in the           *)
(* candidate's own order, then optionally the rating and kind components   *)
(* joined with "and".  "Recommended for you" is stored exactly when the    *)
(* candidate has no genre overlap, a rating below 7.0, a kind outside the  *)
(* liked-kind set, and the actor has no liked item.                        *)
ReasonFollowsPriorityOrder ==
    \A g \in GenerateCalls : \A k \in DOMAIN history[g].rows :
        LET input == history[g].input
            row == history[g].rows[k]
            item == media[row.media_item_id]
            overlap == OverlapInItemOrder(item, input)
        IN /\ overlap # <<>> =>
                 /\ Len(row.reason) >= 2 + Len(overlap)
                 /\ SubSeq(row.reason, 1, 2 + Len(overlap))
                       = <<"Because of", "genres you enjoy:">> \o overlap
                 /\ IsRatingAndKindTail(SubSeq(row.reason, 3 + Len(overlap),
                                               Len(row.reason)))
           /\ row.reason = <<"Recommended for you">>
                 <=> /\ overlap = <<>>
                     /\ item.vote_average < 70
                     /\ item.media_type \notin LikedKinds(input)
                     /\ ActorLiked(input) = {}

(* A row for a candidate of which some genres, not all, are liked: the     *)
(* reason names those, and goes on with a rating and the kind.             *)
ReasonNamesOverlapOnly ==
    \E g \in GenerateCalls : \E k \in DOMAIN history[g].rows :
        LET input == history[g].input
            row == history[g].rows[k]
            item == media[row.media_item_id]
            overlap == OverlapInItemOrder(item, input)
        IN /\ overlap # <<>>
           /\ Len(overlap) < Len(item.genres)
           /\ HasToken(row.reason, "you like")
           /\ HasToken(row.reason, "highly rated") \/ HasToken(row.reason, "well-rated")

(* A row with the generic reason, for an actor with interactions.          *)
GenericReasonStored ==
    \E g \in GenerateCalls : \E k \in DOMAIN history[g].rows :
        /\ history[g].rows[k].reason = <<"Recommended for you">>
        /\ ActorInteractions(history[g].input) # {}

(* A row naming two overlapping genres.                                    *)
ReasonNamesTwoGenres ==
    \E g \in GenerateCalls : \E k \in DOMAIN history[g].rows :
        Len(OverlapInItemOrder(media[history[g].rows[k].media_item_id],
                               history[g].input)) >= 2

(***************************************************************************)
(* Dispensing until nothing is left (SpecLive).  The handlers are those of *)
(* Spec; the log keeps the last completed call only, so that calls can go  *)
(* on for ever, and generateRecommendations runs while the table has room, *)
(* that is finitely often.  An actor who keeps calling                     *)
(* getNextRecommendation is one whose call is weakly fair.                 *)
(***************************************************************************)
MaxLiveRows == 3

LiveActors ==
    {RecommendationsInput(1, V, 1), RecommendationsInput(U, "s1", 1),
     RecommendationsInput(1, "s1", 1), RecommendationsInput(0, "s1", 1)}

LiveGenerates(input) ==
    /\ TruthyId(input.user_id) \/ TruthyStr(input.session_id)
    /\ Len(recs) + input.limit <= MaxLiveRows
    /\ \E rows \in GeneratedRows(interactions, media, recs, now, input) :
          /\ recs' = TableWith(recs, rows)
          /\ now' = now + Len(rows)
          /\ history' = <<Returned("generateRecommendations", input, rows)>>
    /\ UNCHANGED <<watchlist, watchlist_id_seq, users, user_profiles_id_seq,
                   media, interactions, calls>>

LiveNextReturnsNull(input) ==
    /\ NextUnshown(recs, media, input.user_id, input.session_id) = {}
    /\ history' = <<Returned("getNextRecommendation", input, <<>>)>>
    /\ UNCHANGED <<watchlist, watchlist_id_seq, users, user_profiles_id_seq,
                   media, interactions, recs, now, calls>>

LiveNextReturnsRow(input) ==
    /\ \E row \in NextUnshown(recs, media, input.user_id, input.session_id) :
          /\ recs' = MarkShown(recs, row.id)
          /\ history' = <<Returned("getNextRecommendation", input, <<row>>)>>
    /\ UNCHANGED <<watchlist, watchlist_id_seq, users, user_profiles_id_seq,
                   media, interactions, now, calls>>

LiveNext(input) == LiveNextReturnsNull(input) \/ LiveNextReturnsRow(input)

NextLive ==
    \/ \E input \in LiveActors : LiveGenerates(input)
    \/ \E input \in LiveActors : LiveNextReturnsNull(input)
    \/ \E input \in LiveActors : LiveNextReturnsRow(input)

(* Some actor's call always comes; which actors keep calling is left open. *)
SpecLive ==
    /\ Init
    /\ [][NextLive]_vars
    /\ WF_vars(\E input \in LiveActors : LiveNext(input))

(* The rows generateRecommendations creates for an actor input.            *)
CreatedFor(row, input) ==
    /\ row.user_id = IdOrNull(input.user_id)
    /\ row.session_id = StrOrNull(input.session_id)

(* Every row of the actor is shown, and the last call, if it is the        *)
(* actor's getNextRecommendation, returned null.                           *)
NothingLeftFor(input) ==
    /\ \A k \in DOMAIN recs : CreatedFor(recs[k], input) => recs[k].shown
    /\ (/\ history # <<>>
        /\ history[1].op = "getNextRecommendation"
        /\ history[1].input = input)
       => history[1].rows = <<>>

(* C37: if generateRecommendations is called only finitely often for an    *)
(* actor and the actor keeps calling getNextRecommendation, then every     *)
(* recommendation row of the actor eventually has shown = true, and from   *)
(* then on getNextRecommendation returns null for the actor.               *)
EveryRowIsEventuallyShown ==
    \A input \in LiveActors :
        WF_vars(LiveNext(input)) => <>[]NothingLeftFor(input)

(* The same for the actors whose user_id is absent or not 0.               *)
EveryRowIsEventuallyShownForNonZeroIds ==
    \A input \in {a \in LiveActors : a.user_id # 0} :
        WF_vars(LiveNext(input)) => <>[]NothingLeftFor(input)

(* The table is full of rows created for {user_id: 0, session_id: "s1"},   *)
(* all unshown, and that actor's call has just returned null.              *)
UserZeroIsToldNothingIsLeft ==
    /\ Len(recs) = MaxLiveRows
    /\ \A k \in DOMAIN recs :
          CreatedFor(recs[k], RecommendationsInput(0, "s1", 1)) /\ ~recs[k].shown
    /\ history = <<Returned("getNextRecommendation",
                            RecommendationsInput(0, "s1", 1), <<>>)>>

(***************************************************************************)
(* Recommendation rows without an actor (SpecDrain).                       *)
(***************************************************************************)
EveryRecommendationHasAnActor ==
    \A k \in DOMAIN recs :
        recs[k].user_id # NullId \/ recs[k].session_id # NullStr

(* C38: every recommendation row created through generateRecommendations   *)
(* has a user_id or a session_id that is not null, so in every state the   *)
(* handlers can reach a getNextRecommendation call with neither identifier *)
(* returns null.                                                           *)
NoRowForTheCallWithoutActor ==
    /\ []EveryRecommendationHasAnActor
    /\ [][(/\ GetNextStep
           /\ Completed.input.user_id = UndefinedId
           /\ Completed.input.session_id = UndefinedStr)
          => /\ Completed.ok
             /\ Completed.rows = <<>>
             /\ recs' = recs]_vars

(* Rows created for {user_id: 0, session_id: "s1"}, stored with user_id    *)
(* null, are in the table, one of them unshown, and a later                *)
(* getNextRecommendation call without identifiers returned null.           *)
CallWithoutActorGotNullBesideRows ==
    \E g, h \in DOMAIN history :
        /\ g < h
        /\ history[g].op = "generateRecommendations"
        /\ history[g].input.user_id = 0
        /\ history[g].rows # <<>>
        /\ history[g].rows[1].user_id = NullId
        /\ history[h].op = "getNextRecommendation"
        /\ history[h].input.user_id = UndefinedId
        /\ history[h].input.session_id = UndefinedStr
        /\ history[h].rows = <<>>
        /\ \E k \in DOMAIN recs : ~recs[k].shown

====
